---- MODULE Spec2Model ----
(***************************************************************************)
(* A model of the financeadviser retrieval-and-generation pipeline:        *)
(*   app/services/loader.py     PDF ingestion (embed_pdf)                  *)
(*   app/services/retriever.py  DocumentRetriever                          *)
(*   app/services/agent.py      FinancialAgent                             *)
(*   data/prompts/v1/prompt.py  format_context_for_prompt                  *)
(*   app/core/vector_store.py   get_embeddings / get_vector_store          *)
(*   app/api/v1/endpoints/data.py  upload_pdf                              *)
(*   app/api/v1/endpoints/agent.py, search.py  the generation and search   *)
(*                                endpoints                                *)
(*                                                                         *)
(* Text is modelled by its length (the number of characters) and, for the  *)
(* text of a page, the lengths of its words; model identifiers and the     *)
(* file names of uploads and connection URLs are sequences of characters,  *)
(* other file names and queries are strings.                               *)
(***************************************************************************)
EXTENDS Integers, Sequences, FiniteSets, Bags, TLC

VARIABLES
    settings,   \* app.config.settings: open_api_key, database_url, model_id
    index,      \* the rows of the PGVector collection "pdf_documents" (a bag)
    retriever,  \* the DocumentRetriever: _embeddings, _vector_store
    built,      \* how many handles this retriever has constructed so far
    pc,         \* where the calling coroutine is
    op,         \* the operation the caller is in, with its arguments
    worker,     \* the unit of work handed to the executor, if any
    calls,      \* the calls made to collaborators during the current operation
    ret,        \* what the operation returned or raised
    agent,      \* the FinancialAgent: model, temperature, max_tokens
    ctx,        \* inputs and output of format_context_for_prompt
    chunking,   \* a page's text and the chunks the splitter makes of it
    threads,    \* the pool threads running _retrieve_sync on the one retriever
    http,       \* the HTTP requests in flight and the retrievers they constructed
    masking     \* a connection URL and what _safe_db_url makes of it

vars == <<settings, index, retriever, built, pc, op, worker, calls, ret, agent, ctx, chunking,
          threads, http, masking>>

-----------------------------------------------------------------------------
(* Bounds of the model *)

MaxRows == 3          \* rows the index may hold

-----------------------------------------------------------------------------
(* Values *)

None == [kind |-> "None"]

Min(a, b) == IF a < b THEN a ELSE b
Abs(a) == IF a < 0 THEN 0 - a ELSE a

Ok(v) == [kind |-> "ok", value |-> v]
Raise(e) == [kind |-> "raise", error |-> e]

CONFIG_KEY_ERROR == "RuntimeError: OPENAI_API_KEY is not configured"
CONFIG_DB_ERROR == "RuntimeError: DATABASE_URL is not configured"
PDF_ERROR == "PdfReadError"
INDEX_ERROR == "OperationalError"
EMBEDDING_ERROR == "APIConnectionError"

COLLECTION == "pdf_documents"

\* A call to a collaborator, as it is recorded in calls.
Call(fn, arg) == [fn |-> fn, arg |-> arg]

CallsTo(log, fn) == {i \in 1..Len(log) : log[i].fn = fn}

-----------------------------------------------------------------------------
(* app/config.py *)

DEFAULT_MODEL_ID == <<"g", "p", "t", "-", "4", "o", "-", "m", "i", "n", "i">>

Settings ==
    [open_api_key : {"", "sk-test"},
     database_url : {"", "postgresql+psycopg://db/finance"},
     model_id : {DEFAULT_MODEL_ID}]

-----------------------------------------------------------------------------
(* app/core/vector_store.py *)

\* get_embeddings without its check of the key
get_embeddings_unchecked(s, serial) == Ok([kind |-> "OpenAIEmbeddings", serial |-> serial])

\* get_embeddings: the key is checked before the client is constructed.
get_embeddings(s, serial) ==
    IF s.open_api_key = ""
    THEN Raise(CONFIG_KEY_ERROR)
    ELSE Ok([kind |-> "OpenAIEmbeddings", serial |-> serial])

\* get_vector_store without its check of the URL
get_vector_store_unchecked(s, collection_name, embeddings, serial, dbUp) ==
    IF ~dbUp
    THEN Raise(INDEX_ERROR)
    ELSE Ok([kind |-> "PGVector", serial |-> serial,
             embeddings |-> embeddings, collection |-> collection_name])

\* get_vector_store with an embeddings handle given: the URL is checked, then
\* PGVector is constructed, which connects to the database (dbUp says whether
\* that connection succeeds).
get_vector_store(s, collection_name, embeddings, serial, dbUp) ==
    IF s.database_url = ""
    THEN Raise(CONFIG_DB_ERROR)
    ELSE IF ~dbUp
    THEN Raise(INDEX_ERROR)
    ELSE Ok([kind |-> "PGVector", serial |-> serial,
             embeddings |-> embeddings, collection |-> collection_name])

get_vector_store_connection_string(s) ==
    IF s.database_url = ""
    THEN Raise(CONFIG_DB_ERROR)
    ELSE Ok(s.database_url)

-----------------------------------------------------------------------------
(* The embedding provider and the vector index (collaborators) *)

Queries == {"rent", "groceries"}
Filenames == {"jan.pdf", "feb.pdf"}

\* The embedding model is a fixed function of the text.
EmbedQuery(q) == Len(q) % 4
EmbedDocument(len) == (len \div 100) % 4

Distance(q, row) == Abs(EmbedQuery(q) - EmbedDocument(row.len))

\* filter_dict: None, an empty mapping, or {"source": name}.
NoFilter == [kind |-> "None", source |-> ""]
EmptyFilter == [kind |-> "dict", source |-> ""]
SourceFilter(s) == [kind |-> "source", source |-> s]
Filters == {NoFilter, EmptyFilter, SourceFilter("jan.pdf")}

\* Python's truth value of filter_dict.
Truthy(f) == f.kind = "source"

Matches(row, f) == f.kind = "source" => row.source = f.source

\* The rows of the bag ix that match f, each as often as it is stored.
Matching(ix, f) ==
    LET keep == {r \in BagToSet(ix) : Matches(r, f)}
    IN  [r \in keep |-> ix[r]]

Count(s, r) == Cardinality({i \in 1..Len(s) : s[i] = r})

\* The rows of which m still holds a copy and that are nearest to q.
Nearest(m, q) ==
    LET rows == {r \in DOMAIN m : m[r] > 0}
    IN  {r \in rows : \A o \in rows : Distance(q, r) <= Distance(q, o)}

\* The ways of taking n rows out of m, each time one of the nearest left.
RECURSIVE NearestFirst(_, _, _)
NearestFirst(m, q, n) ==
    IF n = 0
    THEN {<<>>}
    ELSE UNION {{<<r>> \o t : t \in NearestFirst([m EXCEPT ![r] = @ - 1], q, n - 1)} :
                  r \in Nearest(m, q)}

\* What the index may answer to a search: the n = min(k, matches) nearest
\* matching rows, nearest first; rows at equal distance come in any order.
SearchAnswers(ix, q, k, f) ==
    LET m == Matching(ix, f)
        n == Min(k, BagCardinality(m))
    IN  NearestFirst(m, q, n)

-----------------------------------------------------------------------------
(* app/services/retriever.py *)

NewRetriever == [collection_name |-> COLLECTION, vector_store |-> None, embeddings |-> None]
NothingBuilt == [embeddings |-> 0, vector_store |-> 0]

\* _ensure_initialized without its "is None" checks: the handles are built anew
\* on every call.
EnsureInitializedEager(r, b, s, dbUp) ==
    LET e == get_embeddings(s, b.embeddings + 1)
        r1 == IF e.kind = "ok" THEN [r EXCEPT !.embeddings = e.value] ELSE r
        b1 == IF e.kind = "ok" THEN [b EXCEPT !.embeddings = @ + 1] ELSE b
        v == get_vector_store(s, r1.collection_name, r1.embeddings, b1.vector_store + 1, dbUp)
    IN  IF e.kind = "raise"
        THEN [retriever |-> r, built |-> b, error |-> e, calls |-> <<>>]
        ELSE IF v.kind = "raise"
        THEN [retriever |-> r1, built |-> b1, error |-> v,
              calls |-> <<Call("OpenAIEmbeddings", e.value)>>]
        ELSE [retriever |-> [r1 EXCEPT !.vector_store = v.value],
              built |-> [b1 EXCEPT !.vector_store = @ + 1],
              error |-> None,
              calls |-> <<Call("OpenAIEmbeddings", e.value), Call("PGVector", v.value)>>]

\* _ensure_initialized dropping the embeddings handle when the construction of
\* the vector store fails
EnsureInitializedForgettingEmbeddings(r, b, s, dbUp) ==
    LET e == IF r.embeddings = None
             THEN get_embeddings(s, b.embeddings + 1)
             ELSE Ok(r.embeddings)
        newE == r.embeddings = None /\ e.kind = "ok"
        r1 == IF newE THEN [r EXCEPT !.embeddings = e.value] ELSE r
        b1 == IF newE THEN [b EXCEPT !.embeddings = @ + 1] ELSE b
        c1 == IF newE THEN <<Call("OpenAIEmbeddings", e.value)>> ELSE <<>>
        v == IF r1.vector_store = None
             THEN get_vector_store(s, r1.collection_name, r1.embeddings,
                                   b1.vector_store + 1, dbUp)
             ELSE Ok(r1.vector_store)
        newV == r1.vector_store = None /\ v.kind = "ok"
    IN  IF e.kind = "raise"
        THEN [retriever |-> r, built |-> b, error |-> e, calls |-> <<>>]
        ELSE IF v.kind = "raise"
        THEN [retriever |-> [r EXCEPT !.embeddings = None], built |-> b1,
              error |-> v, calls |-> c1]
        ELSE [retriever |-> IF newV THEN [r1 EXCEPT !.vector_store = v.value] ELSE r1,
              built |-> IF newV THEN [b1 EXCEPT !.vector_store = @ + 1] ELSE b1,
              error |-> None,
              calls |-> IF newV THEN Append(c1, Call("PGVector", v.value)) ELSE c1]

\* _ensure_initialized on retriever r, which has built b handles so far: the
\* retriever and the count after it, the error it raised (None if it returned)
\* and the collaborators it constructed.
EnsureInitialized(r, b, s, dbUp) ==
    LET e == IF r.embeddings = None
             THEN get_embeddings(s, b.embeddings + 1)
             ELSE Ok(r.embeddings)
        newE == r.embeddings = None /\ e.kind = "ok"
        r1 == IF newE THEN [r EXCEPT !.embeddings = e.value] ELSE r
        b1 == IF newE THEN [b EXCEPT !.embeddings = @ + 1] ELSE b
        c1 == IF newE THEN <<Call("OpenAIEmbeddings", e.value)>> ELSE <<>>
        v == IF r1.vector_store = None
             THEN get_vector_store(s, r1.collection_name, r1.embeddings,
                                   b1.vector_store + 1, dbUp)
             ELSE Ok(r1.vector_store)
        newV == r1.vector_store = None /\ v.kind = "ok"
    IN  IF e.kind = "raise"
        THEN [retriever |-> r, built |-> b, error |-> e, calls |-> <<>>]
        ELSE IF v.kind = "raise"
        THEN [retriever |-> r1, built |-> b1, error |-> v, calls |-> c1]
        ELSE [retriever |-> IF newV THEN [r1 EXCEPT !.vector_store = v.value] ELSE r1,
              built |-> IF newV THEN [b1 EXCEPT !.vector_store = @ + 1] ELSE b1,
              error |-> None,
              calls |-> IF newV THEN Append(c1, Call("PGVector", v.value)) ELSE c1]

\* The search request with k left out, so that the index uses its default of 4.
SearchRequestDefaultK(store, q, k, f) ==
    [store |-> store, query |-> q, k |-> 4, filter |-> IF Truthy(f) THEN f ELSE NoFilter]

\* The search request _retrieve_sync / _retrieve_with_scores_sync sends: the
\* filter is passed only when filter_dict is truthy.
SearchRequest(store, q, k, f) ==
    [store |-> store, query |-> q, k |-> k, filter |-> IF Truthy(f) THEN f ELSE NoFilter]

\* What _retrieve_sync returns from the index's answer.
RetrieveResults(answer) == answer

\* What _retrieve_with_scores_sync returns from the index's answer.
RetrieveResultsWithScores(q, answer) ==
    [i \in 1..Len(answer) |-> <<answer[i], Distance(q, answer[i])>>]

\* _retrieve_sync (scored = FALSE) and _retrieve_with_scores_sync (scored = TRUE).
\* netOk: whether the search call succeeds; answer: what the index answers.
RetrieveSync(r, b, s, q, k, f, scored, dbUp, netOk, answer) ==
    LET init == EnsureInitialized(r, b, s, dbUp)
        req == SearchRequest(init.retriever.vector_store, q, k, f)
        fn == IF scored THEN "similarity_search_with_score" ELSE "similarity_search"
    IN  IF init.error # None
        THEN [retriever |-> init.retriever, built |-> init.built,
              out |-> init.error, calls |-> init.calls]
        ELSE IF ~netOk
        THEN [retriever |-> init.retriever, built |-> init.built,
              out |-> Raise(INDEX_ERROR),
              calls |-> Append(init.calls, Call(fn, [request |-> req, answer |-> <<>>]))]
        ELSE [retriever |-> init.retriever, built |-> init.built,
              out |-> Ok(IF scored THEN RetrieveResultsWithScores(q, answer)
                                   ELSE RetrieveResults(answer)),
              calls |-> Append(init.calls, Call(fn, [request |-> req, answer |-> answer]))]

\* _format_results_sync
FormatResults(documents) ==
    [i \in 1..Len(documents) |->
        [content |-> documents[i].len,
         metadata |-> [source |-> documents[i].source, page |-> documents[i].page],
         source |-> documents[i].source,
         page |-> documents[i].page]]

-----------------------------------------------------------------------------
(* app/services/loader.py *)

CHUNK_SIZE == 1000
CHUNK_OVERLAP == 200

\* What page.extract_text() gives: None, or a text of words (runs of characters
\* without whitespace, given by their lengths) with one space between a word and
\* the next, followed by ws whitespace characters. body is the number of
\* characters from the first to the last character that is not whitespace.
NoText == [isNone |-> TRUE, body |-> 0, ws |-> 0, words |-> <<>>]
Text(body, ws) ==
    [isNone |-> FALSE, body |-> body, ws |-> ws,
     words |-> IF body = 0 THEN <<>> ELSE <<body>>]

RECURSIVE SumSeq(_)
SumSeq(s) == IF s = <<>> THEN 0 ELSE Head(s) + SumSeq(Tail(s))

Words(w) ==
    [isNone |-> FALSE, body |-> SumSeq(w) + Len(w) - 1, ws |-> 0, words |-> w]

Pdf(pages) == [valid |-> TRUE, pages |-> pages]
Malformed == [valid |-> FALSE, pages |-> <<>>]

\* The uploads: PDFs without pages or without text, PDFs with a short page, with
\* a long page followed by a blank one, with a short page after a page without
\* text and with a page of three words, and bytes that are no PDF.
Pdfs ==
    {Pdf(<<>>),
     Pdf(<<Text(0, 0)>>),
     Pdf(<<NoText, Text(0, 2)>>),
     Pdf(<<Text(300, 1)>>),
     Pdf(<<Text(1500, 0), Text(0, 2)>>),
     Pdf(<<NoText, Text(300, 1)>>),
     Pdf(<<Words(<<301, 998, 199>>)>>),
     Malformed}

\* text = page.extract_text() or ""
ExtractText(page) == IF page.isNone THEN Text(0, 0) ELSE page

\* text.strip() is non-empty
HasText(text) == text.body > 0

\* The windows without overlap: each starts where the one before it ends
RECURSIVE SplitLensWithoutOverlap(_)
SplitLensWithoutOverlap(n) ==
    IF n <= CHUNK_SIZE
    THEN <<n>>
    ELSE <<CHUNK_SIZE>> \o SplitLensWithoutOverlap(n - CHUNK_SIZE)

\* The lengths of the chunks RecursiveCharacterTextSplitter(1000, 200) makes of
\* a text of n characters without separators: windows of CHUNK_SIZE that start
\* CHUNK_SIZE - CHUNK_OVERLAP apart.
RECURSIVE SplitLens(_)
SplitLens(n) ==
    IF n <= CHUNK_SIZE
    THEN <<n>>
    ELSE <<CHUNK_SIZE>> \o SplitLens(n - (CHUNK_SIZE - CHUNK_OVERLAP))

\* The splits of a text at its spaces, each space kept at the start of the
\* split that follows it: where each split starts in the text, its length, and
\* whether it starts with a space.
SplitAtSpaces(words) ==
    [i \in 1..Len(words) |->
        IF i = 1
        THEN [start |-> 0, len |-> words[1], lead |-> 0]
        ELSE [start |-> SumSeq(SubSeq(words, 1, i - 1)) + (i - 2),
              len |-> words[i] + 1, lead |-> 1]]

RECURSIVE TotalLen(_)
TotalLen(splits) == IF splits = <<>> THEN 0 ELSE Head(splits).len + TotalLen(Tail(splits))

\* The chunk made of the splits in current_doc joined and stripped: none when
\* nothing but whitespace is left.
JoinDocs(current_doc) ==
    IF current_doc = <<>> \/ TotalLen(current_doc) - Head(current_doc).lead = 0
    THEN <<>>
    ELSE <<[start |-> Head(current_doc).start + Head(current_doc).lead,
            len |-> TotalLen(current_doc) - Head(current_doc).lead]>>

\* The splits kept for the next chunk when only the room for the next split is
\* looked at, not CHUNK_OVERLAP
RECURSIVE KeepWithoutOverlapLimit(_, _)
KeepWithoutOverlapLimit(current_doc, len) ==
    LET total == TotalLen(current_doc)
    IN  IF total + len > CHUNK_SIZE /\ total > 0
        THEN KeepWithoutOverlapLimit(Tail(current_doc), len)
        ELSE current_doc

\* After a chunk is emitted, splits are dropped from the front of current_doc
\* until what is left is at most CHUNK_OVERLAP long and leaves room for the
\* next split of length len.
RECURSIVE KeepOverlap(_, _)
KeepOverlap(current_doc, len) ==
    LET total == TotalLen(current_doc)
    IN  IF total > CHUNK_OVERLAP \/ (total + len > CHUNK_SIZE /\ total > 0)
        THEN KeepOverlap(Tail(current_doc), len)
        ELSE current_doc

\* _merge_splits from split i on: splits smaller than CHUNK_SIZE are joined into
\* chunks of at most CHUNK_SIZE characters.
RECURSIVE MergeSplits(_, _, _)
MergeSplits(splits, i, current_doc) ==
    IF i > Len(splits)
    THEN JoinDocs(current_doc)
    ELSE LET d == splits[i]
         IN  IF TotalLen(current_doc) + d.len > CHUNK_SIZE /\ current_doc # <<>>
             THEN JoinDocs(current_doc)
                  \o MergeSplits(splits, i + 1, Append(KeepOverlap(current_doc, d.len), d))
             ELSE MergeSplits(splits, i + 1, Append(current_doc, d))

\* The chunks of a split of CHUNK_SIZE characters or more, which holds no
\* separator but the space it may start with: it is cut character by character.
SplitCharacters(split) ==
    LET lens == SplitLens(split.len)
    IN  [j \in 1..Len(lens) |->
            IF j = 1
            THEN [start |-> split.start + split.lead, len |-> lens[1] - split.lead]
            ELSE [start |-> split.start + (j - 1) * (CHUNK_SIZE - CHUNK_OVERLAP),
                  len |-> lens[j]]]

\* _split_text from split i on, good_splits being the small splits not yet
\* merged.
RECURSIVE SplitTextFrom(_, _, _)
SplitTextFrom(splits, i, good_splits) ==
    IF i > Len(splits)
    THEN MergeSplits(good_splits, 1, <<>>)
    ELSE IF splits[i].len < CHUNK_SIZE
    THEN SplitTextFrom(splits, i + 1, Append(good_splits, splits[i]))
    ELSE MergeSplits(good_splits, 1, <<>>)
         \o SplitCharacters(splits[i])
         \o SplitTextFrom(splits, i + 1, <<>>)

\* RecursiveCharacterTextSplitter(chunk_size=1000, chunk_overlap=200) on the
\* text of a page: the chunks, each with the place in the text where it starts
\* and its length.
SplitText(text) == SplitTextFrom(SplitAtSpaces(text.words), 1, <<>>)

\* The Documents numbered by their position among the pages that have text
RECURSIVE SplitPagesNumberingKeptPages(_, _, _)
SplitPagesNumberingKeptPages(pages, i, filename) ==
    IF i > Len(pages)
    THEN <<>>
    ELSE LET text == ExtractText(pages[i])
             chunks == SplitText(text)
             kept == Cardinality({j \in 1..(i - 1) : HasText(ExtractText(pages[j]))})
             docs == IF HasText(text)
                     THEN [j \in 1..Len(chunks) |->
                              [source |-> filename, page |-> kept, len |-> chunks[j].len]]
                     ELSE <<>>
         IN  docs \o SplitPagesNumberingKeptPages(pages, i + 1, filename)

\* The Documents of a PDF's pages from page i on (page numbers start at 0), split.
RECURSIVE SplitPages(_, _, _)
SplitPages(pages, i, filename) ==
    IF i > Len(pages)
    THEN <<>>
    ELSE LET text == ExtractText(pages[i])
             chunks == SplitText(text)
             docs == IF HasText(text)
                     THEN [j \in 1..Len(chunks) |->
                              [source |-> filename, page |-> i - 1, len |-> chunks[j].len]]
                     ELSE <<>>
         IN  docs \o SplitPages(pages, i + 1, filename)

RECURSIVE SeqToBag(_)
SeqToBag(s) == IF s = <<>> THEN EmptyBag ELSE SetToBag({Head(s)}) (+) SeqToBag(Tail(s))

\* _embed_pdf_sync returning the number of pages with text, not of chunks
EmbedPdfSyncCountingPages(s, ix, pdf, filename, net) ==
    LET conn == get_vector_store_connection_string(s)
        docs == SplitPages(pdf.pages, 1, filename)
        pages == {i \in 1..Len(pdf.pages) : HasText(ExtractText(pdf.pages[i]))}
        embeddings == get_embeddings(s, 1)
        upsert == Call("PGVector.from_documents",
                       [docs |-> docs, collection |-> COLLECTION])
    IN  IF conn.kind = "raise"
        THEN [index |-> ix, out |-> conn, calls |-> <<>>]
        ELSE IF ~pdf.valid
        THEN [index |-> ix, out |-> Raise(PDF_ERROR), calls |-> <<>>]
        ELSE IF docs = <<>>
        THEN [index |-> ix, out |-> Ok(0), calls |-> <<>>]
        ELSE IF embeddings.kind = "raise"
        THEN [index |-> ix, out |-> embeddings, calls |-> <<>>]
        ELSE IF net # "ok"
        THEN [index |-> ix,
              out |-> Raise(IF net = "embed_fail" THEN EMBEDDING_ERROR ELSE INDEX_ERROR),
              calls |-> <<Call("OpenAIEmbeddings", embeddings.value), upsert>>]
        ELSE [index |-> ix (+) SeqToBag(docs),
              out |-> Ok(Cardinality(pages)),
              calls |-> <<Call("OpenAIEmbeddings", embeddings.value), upsert>>]

\* _embed_pdf_sync without its return of 0 when no page has text
EmbedPdfSyncWithoutEarlyReturn(s, ix, pdf, filename, net) ==
    LET conn == get_vector_store_connection_string(s)
        docs == SplitPages(pdf.pages, 1, filename)
        embeddings == get_embeddings(s, 1)
        upsert == Call("PGVector.from_documents",
                       [docs |-> docs, collection |-> COLLECTION])
    IN  IF conn.kind = "raise"
        THEN [index |-> ix, out |-> conn, calls |-> <<>>]
        ELSE IF ~pdf.valid
        THEN [index |-> ix, out |-> Raise(PDF_ERROR), calls |-> <<>>]
        ELSE IF embeddings.kind = "raise"
        THEN [index |-> ix, out |-> embeddings, calls |-> <<>>]
        ELSE IF net # "ok"
        THEN [index |-> ix,
              out |-> Raise(IF net = "embed_fail" THEN EMBEDDING_ERROR ELSE INDEX_ERROR),
              calls |-> <<Call("OpenAIEmbeddings", embeddings.value), upsert>>]
        ELSE [index |-> ix (+) SeqToBag(docs),
              out |-> Ok(Len(docs)),
              calls |-> <<Call("OpenAIEmbeddings", embeddings.value), upsert>>]

\* _embed_pdf_sync: the index after it, what it returned or raised, and the
\* collaborators it called. net: how PGVector.from_documents ends.
EmbedPdfSync(s, ix, pdf, filename, net) ==
    LET conn == get_vector_store_connection_string(s)
        docs == SplitPages(pdf.pages, 1, filename)
        embeddings == get_embeddings(s, 1)
        upsert == Call("PGVector.from_documents",
                       [docs |-> docs, collection |-> COLLECTION])
    IN  IF conn.kind = "raise"
        THEN [index |-> ix, out |-> conn, calls |-> <<>>]
        ELSE IF ~pdf.valid
        THEN [index |-> ix, out |-> Raise(PDF_ERROR), calls |-> <<>>]
        ELSE IF docs = <<>>
        THEN [index |-> ix, out |-> Ok(0), calls |-> <<>>]
        ELSE IF embeddings.kind = "raise"
        THEN [index |-> ix, out |-> embeddings, calls |-> <<>>]
        ELSE IF net # "ok"
        THEN [index |-> ix,
              out |-> Raise(IF net = "embed_fail" THEN EMBEDDING_ERROR ELSE INDEX_ERROR),
              calls |-> <<Call("OpenAIEmbeddings", embeddings.value), upsert>>]
        ELSE [index |-> ix (+) SeqToBag(docs),
              out |-> Ok(Len(docs)),
              calls |-> <<Call("OpenAIEmbeddings", embeddings.value), upsert>>]

-----------------------------------------------------------------------------
(* data/prompts/v1/prompt.py *)

TRUNCATED_MARKER == "\n[...truncated...]"
MIN_REMAINING_CHARS == 200
CHARS_PER_TOKEN == 4
DEFAULT_CONTEXT_TOKENS == 4000

\* The number of characters of str(n), n >= 0.
RECURSIVE Digits(_)
Digits(n) == IF n < 10 THEN 1 ELSE 1 + Digits(n \div 10)

\* len(doc_text): the block of document number i
DocChars(i, doc) ==
    Len("\nDocument ") + Digits(i) + Len(":\nSource: ") + Len(doc.source)
    + Len(" (Page ") + Digits(doc.page) + Len(")\nContent:\n") + doc.len + Len("\n")

\* The loop cutting a block when exactly MIN_REMAINING_CHARS are left
RECURSIVE ContextPartsAtLeast(_, _, _, _)
ContextPartsAtLeast(documents, i, total, max_chars) ==
    IF i > Len(documents)
    THEN <<>>
    ELSE LET doc_chars == DocChars(i, documents[i])
             remaining_chars == max_chars - total
         IN  IF total + doc_chars > max_chars
             THEN IF remaining_chars >= MIN_REMAINING_CHARS
                  THEN <<[doc |-> i,
                          chars |-> Min(doc_chars, remaining_chars) + Len(TRUNCATED_MARKER),
                          truncated |-> TRUE]>>
                  ELSE <<>>
             ELSE <<[doc |-> i, chars |-> doc_chars, truncated |-> FALSE]>>
                  \o ContextPartsAtLeast(documents, i + 1, total + doc_chars, max_chars)

\* The loop going on to the next document, instead of stopping, when a block
\* is left out
RECURSIVE ContextPartsSkipping(_, _, _, _)
ContextPartsSkipping(documents, i, total, max_chars) ==
    IF i > Len(documents)
    THEN <<>>
    ELSE LET doc_chars == DocChars(i, documents[i])
             remaining_chars == max_chars - total
         IN  IF total + doc_chars > max_chars
             THEN IF remaining_chars > MIN_REMAINING_CHARS
                  THEN <<[doc |-> i,
                          chars |-> Min(doc_chars, remaining_chars) + Len(TRUNCATED_MARKER),
                          truncated |-> TRUE]>>
                  ELSE ContextPartsSkipping(documents, i + 1, total, max_chars)
             ELSE <<[doc |-> i, chars |-> doc_chars, truncated |-> FALSE]>>
                  \o ContextPartsSkipping(documents, i + 1, total + doc_chars, max_chars)

\* The loop of format_context_for_prompt from document i on, total_chars being
\* total: the context_parts it appends, each with the document it renders, its
\* length and whether it was cut.
RECURSIVE ContextParts(_, _, _, _)
ContextParts(documents, i, total, max_chars) ==
    IF i > Len(documents)
    THEN <<>>
    ELSE LET doc_chars == DocChars(i, documents[i])
             remaining_chars == max_chars - total
         IN  IF total + doc_chars > max_chars
             THEN IF remaining_chars > MIN_REMAINING_CHARS
                  THEN <<[doc |-> i,
                          chars |-> Min(doc_chars, remaining_chars) + Len(TRUNCATED_MARKER),
                          truncated |-> TRUE]>>
                  ELSE <<>>
             ELSE <<[doc |-> i, chars |-> doc_chars, truncated |-> FALSE]>>
                  \o ContextParts(documents, i + 1, total + doc_chars, max_chars)

RECURSIVE SumChars(_)
SumChars(parts) == IF parts = <<>> THEN 0 ELSE Head(parts).chars + SumChars(Tail(parts))

\* len("\n".join(context_parts))
JoinedChars(parts) == SumChars(parts) + (IF parts = <<>> THEN 0 ELSE Len(parts) - 1)

\* format_context_for_prompt: the context placed into CONTEXT_INSTRUCTION, and
\* the query placed after it.
format_context_for_prompt(documents, query, max_tokens) ==
    LET parts == ContextParts(documents, 1, 0, max_tokens * CHARS_PER_TOKEN)
    IN  [parts |-> parts, context_chars |-> JoinedChars(parts), query |-> query]

get_summary_prompt(context) == [template |-> "SUMMARY_SYSTEM_PROMPT", context |-> context]
get_recommendations_prompt(context) ==
    [template |-> "RECOMMENDATIONS_SYSTEM_PROMPT", context |-> context]

-----------------------------------------------------------------------------
(* app/services/agent.py *)

NEW_API_MODELS ==
    {<<"g", "p", "t", "-", "4", "o">>,
     <<"g", "p", "t", "-", "4", "o", "-", "2", "0", "2", "4", "-", "0", "8", "-", "0", "6">>,
     <<"g", "p", "t", "-", "4", "o", "-", "m", "i", "n", "i">>,
     <<"g", "p", "t", "-", "4", "o", "-", "m", "i", "n", "i", "-", "2", "0", "2", "4", "-", "0", "7", "-", "1", "8">>,
     <<"o", "1", "-", "p", "r", "e", "v", "i", "e", "w">>,
     <<"o", "1", "-", "m", "i", "n", "i">>,
     <<"o", "1">>}

\* Model identifiers an agent may be configured with.
GPT_4O_MINI == <<"g", "p", "t", "-", "4", "o", "-", "m", "i", "n", "i">>
GPT_35_TURBO == <<"g", "p", "t", "-", "3", ".", "5", "-", "t", "u", "r", "b", "o">>
GPT_4O_UPPER == <<"G", "P", "T", "-", "4", "O">>
GPT_4 == <<"g", "p", "t", "-", "4">>
O1_PRO == <<"o", "1", "-", "p", "r", "o">>

\* The model argument of FinancialAgent(model=...): None, or an identifier.
ModelArgs == {<<>>, GPT_35_TURBO, GPT_4O_UPPER, GPT_4, O1_PRO}

DEFAULT_TEMPERATURE == "0.7"
DEFAULT_MAX_TOKENS == 2000

UPPER == <<"A", "B", "C", "D", "E", "F", "G", "H", "I", "J", "K", "L", "M",
           "N", "O", "P", "Q", "R", "S", "T", "U", "V", "W", "X", "Y", "Z">>
LOWER == <<"a", "b", "c", "d", "e", "f", "g", "h", "i", "j", "k", "l", "m",
           "n", "o", "p", "q", "r", "s", "t", "u", "v", "w", "x", "y", "z">>

\* str.lower()
LowerChar(c) ==
    IF \E i \in 1..Len(UPPER) : UPPER[i] = c
    THEN LOWER[CHOOSE i \in 1..Len(UPPER) : UPPER[i] = c]
    ELSE c
Lower(s) == [i \in 1..Len(s) |-> LowerChar(s[i])]

\* str.startswith(prefix)
StartsWith(s, prefix) == Len(prefix) <= Len(s) /\ SubSeq(s, 1, Len(prefix)) = prefix

\* FinancialAgent.__init__: self.model = model or settings.model_id
NewAgent(s, model) ==
    [model |-> IF model = <<>> THEN s.model_id ELSE model,
     temperature |-> DEFAULT_TEMPERATURE,
     max_tokens |-> DEFAULT_MAX_TOKENS]

\* _uses_new_api as an exact, case-sensitive membership test
UsesNewApiExactMatch(a) == a.model \in NEW_API_MODELS

\* _uses_new_api
UsesNewApi(a) ==
    LET model_lower == Lower(a.model)
    IN  \E new_model \in NEW_API_MODELS : StartsWith(model_lower, Lower(new_model))

\* The request with the user's message placed before the system prompt
CompletionRequestUserFirst(a, system_prompt, user_message) ==
    [model |-> a.model,
     messages |-> <<[role |-> "user", content |-> user_message],
                    [role |-> "system", content |-> system_prompt]>>,
     temperature |-> a.temperature,
     limit |-> IF UsesNewApi(a)
               THEN [max_completion_tokens |-> a.max_tokens]
               ELSE [max_tokens |-> a.max_tokens]]

\* The request _generate_completion sends to chat.completions.create.
CompletionRequest(a, system_prompt, user_message) ==
    [model |-> a.model,
     messages |-> <<[role |-> "system", content |-> system_prompt],
                    [role |-> "user", content |-> user_message]>>,
     temperature |-> a.temperature,
     limit |-> IF UsesNewApi(a)
               THEN [max_completion_tokens |-> a.max_tokens]
               ELSE [max_tokens |-> a.max_tokens]]

\* How the chat-completion endpoint may answer: a completion, a completion
\* without choices or without usage, or a failure.
Completion(choices, usage) == [kind |-> "response", choices |-> choices, usage |-> usage]
Failure(e) == [kind |-> "error", error |-> e]
CompletionOutcomes ==
    {Completion(1, TRUE), Completion(0, TRUE), Completion(1, FALSE),
     Failure("RateLimitError"), Failure("APIConnectionError")}

\* _generate_completion with a handler that raises an error of its own
GenerateCompletionWrapped(outcome) ==
    IF outcome.kind = "error" THEN Raise("RuntimeError: completion failed")
    ELSE IF outcome.choices = 0 THEN Raise("IndexError")
    ELSE IF ~outcome.usage THEN Raise("AttributeError")
    ELSE Ok("content")

\* _generate_completion once the endpoint has answered: the text, or the
\* exception raised inside the try block, which the handler logs and re-raises.
GenerateCompletion(outcome) ==
    IF outcome.kind = "error" THEN Raise(outcome.error)
    ELSE IF outcome.choices = 0 THEN Raise("IndexError")
    ELSE IF ~outcome.usage THEN Raise("AttributeError")
    ELSE Ok("content")

\* source_filter: None, or a string.
NoSource == [kind |-> "None", value |-> ""]
Str(s) == [kind |-> "str", value |-> s]
SourceArgs == {NoSource, Str(""), Str("jan.pdf")}

\* filter_dict made of every source_filter that is not None
RetrieveContextFilterIfNotNone(source_filter) ==
    IF source_filter.kind = "str"
    THEN SourceFilter(source_filter.value)
    ELSE NoFilter

\* filter_dict of _retrieve_context
RetrieveContextFilter(source_filter) ==
    IF source_filter.kind = "str" /\ source_filter.value # ""
    THEN SourceFilter(source_filter.value)
    ELSE NoFilter

TextKey(name) == IF name = "generate_summary" THEN "summary" ELSE "recommendations"

\* The canned text of the result returned when no document was retrieved.
FallbackText(name) ==
    IF name = "generate_summary"
    THEN "I couldn't find any financial documents matching your query. "
         \o "Please ensure you have uploaded relevant financial documents "
         \o "(bank statements, receipts, transaction records) before requesting a summary."
    ELSE "I couldn't find any financial documents matching your query. "
         \o "To provide personalized recommendations, please upload your financial documents "
         \o "(bank statements, transaction records, expense reports) first."

\* The fallback result without its model
FallbackResultWithoutModel(a, name, query) ==
    [text_key |-> TextKey(name),
     text |-> FallbackText(name),
     documents_used |-> 0,
     sources |-> <<>>,
     query |-> query,
     model |-> <<>>]

\* The result returned when no document was retrieved.
FallbackResult(a, name, query) ==
    [text_key |-> TextKey(name),
     text |-> FallbackText(name),
     documents_used |-> 0,
     sources |-> <<>>,
     query |-> query,
     model |-> a.model]

\* The sources without set(): one entry for each document
SourceListsWithDuplicates(documents) ==
    {[i \in 1..Len(documents) |-> documents[i].source]}

\* list(set(doc.metadata.get("source", "unknown") for doc in documents)): the
\* distinct sources, in the order the set happens to give them.
SourceLists(documents) ==
    LET S == {documents[i].source : i \in 1..Len(documents)}
    IN  {l \in [1..Cardinality(S) -> S] : {l[i] : i \in 1..Len(l)} = S}

\* The result with documents_used counting the blocks placed in the prompt
GenerationResultCountingBlocks(a, name, query, documents, text, sources) ==
    [text_key |-> TextKey(name),
     text |-> text,
     documents_used |-> Len(format_context_for_prompt(documents, query,
                                                      DEFAULT_CONTEXT_TOKENS).parts),
     sources |-> sources,
     query |-> query,
     model |-> a.model]

\* The result with documents_used counting the sources
GenerationResultCountingSources(a, name, query, documents, text, sources) ==
    [text_key |-> TextKey(name),
     text |-> text,
     documents_used |-> Len(sources),
     sources |-> sources,
     query |-> query,
     model |-> a.model]

\* The result returned after a completion.
GenerationResult(a, name, query, documents, text, sources) ==
    [text_key |-> TextKey(name),
     text |-> text,
     documents_used |-> Len(documents),
     sources |-> sources,
     query |-> query,
     model |-> a.model]

\* generate_recommendations asking for a completion even without documents
GenerateRecommendationsWithoutFallback(a, query, documents) ==
    [pc |-> "completing",
     ret |-> None,
     requests |-> <<Call("format_context_for_prompt",
                         [documents |-> documents, query |-> query]),
                    Call("chat.completions.create",
                         CompletionRequest(a,
                             get_recommendations_prompt(
                                 format_context_for_prompt(documents, query,
                                                           DEFAULT_CONTEXT_TOKENS)),
                             query))>>]

\* generate_summary asking for a completion even without documents
GenerateSummaryWithoutFallback(a, query, documents) ==
    [pc |-> "completing",
     ret |-> None,
     requests |-> <<Call("format_context_for_prompt",
                         [documents |-> documents, query |-> query]),
                    Call("chat.completions.create",
                         CompletionRequest(a,
                             get_summary_prompt(
                                 format_context_for_prompt(documents, query,
                                                           DEFAULT_CONTEXT_TOKENS)),
                             query))>>]

\* generate_summary once _retrieve_context has returned documents: where it
\* goes on, what it returns, and the calls it makes: the context is assembled
\* and the completion is requested.
GenerateSummaryAfterRetrieval(a, query, documents) ==
    IF documents = <<>>
    THEN [pc |-> "returned",
          ret |-> Ok(FallbackResult(a, "generate_summary", query)),
          requests |-> <<>>]
    ELSE [pc |-> "completing",
          ret |-> None,
          requests |-> <<Call("format_context_for_prompt",
                              [documents |-> documents, query |-> query]),
                         Call("chat.completions.create",
                              CompletionRequest(a,
                                  get_summary_prompt(
                                      format_context_for_prompt(documents, query,
                                                                DEFAULT_CONTEXT_TOKENS)),
                                  query))>>]

\* generate_recommendations once _retrieve_context has returned documents.
GenerateRecommendationsAfterRetrieval(a, query, documents) ==
    IF documents = <<>>
    THEN [pc |-> "returned",
          ret |-> Ok(FallbackResult(a, "generate_recommendations", query)),
          requests |-> <<>>]
    ELSE [pc |-> "completing",
          ret |-> None,
          requests |-> <<Call("format_context_for_prompt",
                              [documents |-> documents, query |-> query]),
                         Call("chat.completions.create",
                              CompletionRequest(a,
                                  get_recommendations_prompt(
                                      format_context_for_prompt(documents, query,
                                                                DEFAULT_CONTEXT_TOKENS)),
                                  query))>>]

\* generate_summary once _generate_completion has ended with text (a text, or
\* the exception it raised), sources being the list made of the set of sources.
GenerateSummaryAfterCompletion(a, query, documents, text, sources) ==
    IF text.kind = "raise"
    THEN [pc |-> "raised", ret |-> text]
    ELSE [pc |-> "returned",
          ret |-> Ok(GenerationResult(a, "generate_summary", query, documents,
                                      text.value, sources))]

\* generate_recommendations once _generate_completion has ended.
GenerateRecommendationsAfterCompletion(a, query, documents, text, sources) ==
    IF text.kind = "raise"
    THEN [pc |-> "raised", ret |-> text]
    ELSE [pc |-> "returned",
          ret |-> Ok(GenerationResult(a, "generate_recommendations", query, documents,
                                      text.value, sources))]

\* The operation of that name after retrieval, and after completion.
AfterRetrieval(name, a, query, documents) ==
    IF name = "generate_summary"
    THEN GenerateSummaryAfterRetrieval(a, query, documents)
    ELSE GenerateRecommendationsAfterRetrieval(a, query, documents)

AfterCompletion(name, a, query, documents, text, sources) ==
    IF name = "generate_summary"
    THEN GenerateSummaryAfterCompletion(a, query, documents, text, sources)
    ELSE GenerateRecommendationsAfterCompletion(a, query, documents, text, sources)

-----------------------------------------------------------------------------
(* The service: one caller on the event loop, and the executor's worker *)

K_MIN == 1
K_MAX == 20
\* The values of k the caller passes: every k above the number of rows the index
\* holds is answered alike, so the small ones, the agent's default 5 and the largest.
Ks == {k \in K_MIN..K_MAX : k <= MaxRows \/ k = 5 \/ k = K_MAX}

Idle == [status |-> "idle", fn |-> "", arg |-> None, out |-> None]

\* loop.run_in_executor(None, fn, ...): the unit of work is handed to the pool.
Submitted(fn, arg) == [status |-> "pending", fn |-> fn, arg |-> arg, out |-> None]

\* run_in_executor without await: the caller goes on at once.
NotAwaited(w) == TRUE

\* await: the caller goes on only when the unit of work has finished.
Awaited(w) == w.status = "done"

CallerFree == pc = "idle"

otherVars == <<threads, http, masking>>

agentVars == <<agent, ctx, chunking, otherVars>>

IdleAgent == [model |-> <<>>, temperature |-> "", max_tokens |-> 0]
NoContext == [documents |-> <<>>, max_tokens |-> 0, parts |-> <<>>, done |-> FALSE]
NoPage == [text |-> NoText, chunks |-> <<>>, done |-> FALSE]
NoThreads == <<>>
NoRequests == [requests |-> <<>>, retrievers |-> <<>>]
NoUrl == [url |-> <<>>, result |-> <<>>, done |-> FALSE]

Init ==
    /\ settings \in Settings
    /\ index = EmptyBag
    /\ retriever = NewRetriever
    /\ built = NothingBuilt
    /\ pc = "idle"
    /\ op = [name |-> ""]
    /\ worker = Idle
    /\ calls = <<>>
    /\ ret = None
    /\ agent = IdleAgent
    /\ ctx = NoContext
    /\ chunking = NoPage
    /\ threads = NoThreads
    /\ http = NoRequests
    /\ masking = NoUrl

\* embed_pdf(pdf_bytes, filename), up to its await
EmbedPdf ==
    \E pdf \in Pdfs, filename \in Filenames :
        /\ CallerFree
        /\ BagCardinality(index) + Len(SplitPages(pdf.pages, 1, filename)) <= MaxRows
        /\ op' = [name |-> "embed_pdf", pdf |-> pdf, filename |-> filename]
        /\ worker' = Submitted("_embed_pdf_sync", None)
        /\ pc' = "awaiting"
        /\ calls' = <<>>
        /\ ret' = None
        /\ UNCHANGED <<settings, index, retriever, built, agentVars>>

\* retrieve(query, k, filter_dict), up to its await
Retrieve ==
    \E q \in Queries, k \in Ks, f \in Filters :
        /\ CallerFree
        /\ op' = [name |-> "retrieve", query |-> q, k |-> k, filter |-> f]
        /\ worker' = Submitted("_retrieve_sync", None)
        /\ pc' = "awaiting"
        /\ calls' = <<>>
        /\ ret' = None
        /\ UNCHANGED <<settings, index, retriever, built, agentVars>>

\* retrieve_with_scores(query, k, filter_dict), up to its await
RetrieveWithScores ==
    \E q \in Queries, k \in Ks, f \in Filters :
        /\ CallerFree
        /\ op' = [name |-> "retrieve_with_scores", query |-> q, k |-> k, filter |-> f]
        /\ worker' = Submitted("_retrieve_with_scores_sync", None)
        /\ pc' = "awaiting"
        /\ calls' = <<>>
        /\ ret' = None
        /\ UNCHANGED <<settings, index, retriever, built, agentVars>>

\* retrieve_formatted(query, k, filter_dict), up to the await in retrieve
RetrieveFormatted ==
    \E q \in Queries, k \in Ks, f \in Filters :
        /\ CallerFree
        /\ op' = [name |-> "retrieve_formatted", query |-> q, k |-> k, filter |-> f]
        /\ worker' = Submitted("_retrieve_sync", None)
        /\ pc' = "awaiting"
        /\ calls' = <<>>
        /\ ret' = None
        /\ UNCHANGED <<settings, index, retriever, built, agentVars>>

\* FinancialAgent._retrieve_context(query, k, source_filter) of an agent that
\* holds this retriever (an agent exists only with an API key), up to the await
\* in retrieve
RetrieveContext ==
    \E q \in Queries, k \in Ks, source_filter \in SourceArgs :
        /\ CallerFree
        /\ settings.open_api_key # ""
        /\ op' = [name |-> "_retrieve_context", query |-> q, k |-> k,
                  filter |-> RetrieveContextFilter(source_filter),
                  source_filter |-> source_filter]
        /\ worker' = Submitted("_retrieve_sync", None)
        /\ pc' = "awaiting"
        /\ calls' = <<>>
        /\ ret' = None
        /\ UNCHANGED <<settings, index, retriever, built, agentVars>>

\* get_retriever(k): runs on the caller, nothing is offloaded
GetRetriever ==
    \E k \in Ks, dbUp \in BOOLEAN :
        LET init == EnsureInitialized(retriever, built, settings, dbUp)
            kwargs == [store |-> init.retriever.vector_store, k |-> k]
        IN  /\ CallerFree
            /\ op' = [name |-> "get_retriever", k |-> k]
            /\ retriever' = init.retriever
            /\ built' = init.built
            /\ IF init.error # None
               THEN /\ pc' = "raised"
                    /\ ret' = init.error
                    /\ calls' = init.calls
               ELSE /\ pc' = "returned"
                    /\ ret' = Ok([kind |-> "VectorStoreRetriever", search_kwargs |-> kwargs])
                    /\ calls' = Append(init.calls, Call("as_retriever", kwargs))
            /\ UNCHANGED <<settings, index, worker, agentVars>>

\* The worker runs _embed_pdf_sync.
RunEmbedPdfSync ==
    /\ worker.status = "pending"
    /\ worker.fn = "_embed_pdf_sync"
    /\ \E net \in {"ok", "embed_fail", "db_fail"} :
        LET res == EmbedPdfSync(settings, index, op.pdf, op.filename, net)
        IN  /\ index' = res.index
            /\ calls' = calls \o res.calls
            /\ worker' = [worker EXCEPT !.status = "done", !.out = res.out]
            /\ UNCHANGED <<settings, retriever, built, pc, op, ret, agentVars>>

\* The worker runs _retrieve_sync.
RunRetrieveSync ==
    /\ worker.status = "pending"
    /\ worker.fn = "_retrieve_sync"
    /\ \E dbUp \in BOOLEAN, netOk \in BOOLEAN :
        LET req == SearchRequest(None, op.query, op.k, op.filter)
        IN  \E answer \in SearchAnswers(index, req.query, req.k, req.filter) :
                LET res == RetrieveSync(retriever, built, settings, op.query, op.k,
                                        op.filter, FALSE, dbUp, netOk, answer)
                IN  /\ retriever' = res.retriever
                    /\ built' = res.built
                    /\ calls' = calls \o res.calls
                    /\ worker' = [worker EXCEPT !.status = "done", !.out = res.out]
                    /\ UNCHANGED <<settings, index, pc, op, ret, agentVars>>

\* The worker runs _retrieve_with_scores_sync.
RunRetrieveWithScoresSync ==
    /\ worker.status = "pending"
    /\ worker.fn = "_retrieve_with_scores_sync"
    /\ \E dbUp \in BOOLEAN, netOk \in BOOLEAN :
        LET req == SearchRequest(None, op.query, op.k, op.filter)
        IN  \E answer \in SearchAnswers(index, req.query, req.k, req.filter) :
                LET res == RetrieveSync(retriever, built, settings, op.query, op.k,
                                        op.filter, TRUE, dbUp, netOk, answer)
                IN  /\ retriever' = res.retriever
                    /\ built' = res.built
                    /\ calls' = calls \o res.calls
                    /\ worker' = [worker EXCEPT !.status = "done", !.out = res.out]
                    /\ UNCHANGED <<settings, index, pc, op, ret, agentVars>>

\* The worker runs _format_results_sync.
RunFormatResultsSync ==
    /\ worker.status = "pending"
    /\ worker.fn = "_format_results_sync"
    /\ worker' = [worker EXCEPT !.status = "done", !.out = Ok(FormatResults(worker.arg))]
    /\ UNCHANGED <<settings, index, retriever, built, pc, op, calls, ret, agentVars>>

\* retrieve_formatted after retrieve has returned: the formatting is offloaded.
ResumeFormatted ==
    /\ pc = "awaiting"
    /\ Awaited(worker)
    /\ op.name = "retrieve_formatted"
    /\ worker.fn = "_retrieve_sync"
    /\ worker.out.kind = "ok"
    /\ worker' = Submitted("_format_results_sync", worker.out.value)
    /\ UNCHANGED <<settings, index, retriever, built, pc, op, calls, ret, agentVars>>

\* The await ends: the operation returns, or raises, what the unit of work did.
Resume ==
    /\ pc = "awaiting"
    /\ Awaited(worker)
    /\ op.name # "upload_pdf"
    /\ ~(op.name = "retrieve_formatted" /\ worker.fn = "_retrieve_sync"
         /\ worker.out.kind = "ok")
    /\ pc' = IF worker.out.kind = "ok" THEN "returned" ELSE "raised"
    /\ ret' = worker.out
    /\ UNCHANGED <<settings, index, retriever, built, op, worker, calls, agentVars>>

\* The caller has the result of the operation and goes on to its next call.
Finish ==
    /\ pc \in {"returned", "raised"}
    /\ pc' = "idle"
    /\ op' = [name |-> ""]
    /\ worker' = Idle
    /\ calls' = <<>>
    /\ ret' = None
    /\ UNCHANGED <<settings, index, retriever, built, agentVars>>

Next ==
    \/ EmbedPdf
    \/ Retrieve
    \/ RetrieveWithScores
    \/ RetrieveFormatted
    \/ RetrieveContext
    \/ GetRetriever
    \/ RunEmbedPdfSync
    \/ RunRetrieveSync
    \/ RunRetrieveWithScoresSync
    \/ RunFormatResultsSync
    \/ ResumeFormatted
    \/ Resume
    \/ Finish

Spec == Init /\ [][Next]_vars

-----------------------------------------------------------------------------
(* The agent: FinancialAgent's generation calls, one at a time *)

GenerationOps == {"generate_summary", "generate_recommendations"}

\* The uploads made between generation calls.
AgentPdfs == {Pdf(<<Text(0, 2)>>), Pdf(<<Text(300, 1)>>)}

InitAgent ==
    /\ settings \in Settings
    /\ index = EmptyBag
    /\ retriever = NewRetriever
    /\ built = NothingBuilt
    /\ pc = "idle"
    /\ op = [name |-> ""]
    /\ worker = Idle
    /\ calls = <<>>
    /\ ret = None
    /\ agent = IdleAgent
    /\ ctx = NoContext
    /\ chunking = NoPage
    /\ threads = NoThreads
    /\ http = NoRequests
    /\ masking = NoUrl

\* embed_pdf as a whole, between two generation calls
Ingest ==
    \E pdf \in AgentPdfs, filename \in Filenames, net \in {"ok", "embed_fail", "db_fail"} :
        LET res == EmbedPdfSync(settings, index, pdf, filename, net)
        IN  /\ pc = "idle"
            /\ BagCardinality(index) + Len(SplitPages(pdf.pages, 1, filename)) <= MaxRows
            /\ index' = res.index
            /\ UNCHANGED <<settings, retriever, built, pc, op, worker, calls, ret, agentVars>>

\* FinancialAgent(model): fails without an API key, else the agent has a new
\* DocumentRetriever.
CreateAgent ==
    \E model \in ModelArgs :
        /\ pc = "idle"
        /\ IF settings.open_api_key = ""
           THEN /\ pc' = "raised"
                /\ op' = [name |-> "FinancialAgent"]
                /\ ret' = Raise(CONFIG_KEY_ERROR)
                /\ UNCHANGED <<agent, retriever, built>>
           ELSE /\ agent' = NewAgent(settings, model)
                /\ retriever' = NewRetriever
                /\ built' = NothingBuilt
                /\ UNCHANGED <<pc, op, ret>>
        /\ UNCHANGED <<settings, index, worker, calls, ctx, chunking, otherVars>>

\* generate_summary / generate_recommendations, up to the await in _retrieve_context
Generate(name) ==
    \E q \in Queries, k \in Ks, source_filter \in SourceArgs :
        /\ pc = "idle"
        /\ agent # IdleAgent
        /\ op' = [name |-> name, query |-> q, k |-> k, source_filter |-> source_filter,
                  retrieved |-> None, completion |-> None]
        /\ pc' = "retrieving"
        /\ calls' = <<>>
        /\ ret' = None
        /\ UNCHANGED <<settings, index, retriever, built, worker, agentVars>>

GenerateSummary == Generate("generate_summary")
GenerateRecommendations == Generate("generate_recommendations")

\* retriever.retrieve has ended: its error is raised; without documents the
\* fallback is returned; else the context is formatted and the completion is
\* requested.
Retrieved ==
    /\ pc = "retrieving"
    /\ LET f == RetrieveContextFilter(op.source_filter)
           req == SearchRequest(None, op.query, op.k, f)
       IN  \E answer \in SearchAnswers(index, req.query, req.k, req.filter),
              dbUp \in BOOLEAN, netOk \in BOOLEAN :
                LET res == RetrieveSync(retriever, built, settings, op.query, op.k, f,
                                        FALSE, dbUp, netOk, answer)
                    step == AfterRetrieval(op.name, agent, op.query, res.out.value)
                IN  /\ retriever' = res.retriever
                    /\ built' = res.built
                    /\ op' = [op EXCEPT !.retrieved = res.out]
                    /\ IF res.out.kind = "raise"
                       THEN /\ pc' = "raised"
                            /\ ret' = res.out
                            /\ calls' = calls \o res.calls
                       ELSE /\ pc' = step.pc
                            /\ ret' = step.ret
                            /\ calls' = (calls \o res.calls) \o step.requests
                    /\ UNCHANGED <<settings, index, worker, agentVars>>

\* chat.completions.create has ended: the completion's error is raised, or the
\* result is returned.
Completed ==
    /\ pc = "completing"
    /\ \E outcome \in CompletionOutcomes :
        LET text == GenerateCompletion(outcome)
            documents == op.retrieved.value
        IN  /\ op' = [op EXCEPT !.completion = outcome]
            /\ \E sources \in SourceLists(documents) :
                  LET step == AfterCompletion(op.name, agent, op.query, documents,
                                              text, sources)
                  IN  /\ pc' = step.pc
                      /\ ret' = step.ret
            /\ UNCHANGED <<settings, index, retriever, built, worker, calls, agentVars>>

NextAgent ==
    \/ Ingest
    \/ CreateAgent
    \/ GenerateSummary
    \/ GenerateRecommendations
    \/ Retrieved
    \/ Completed
    \/ Finish

SpecAgent == InitAgent /\ [][NextAgent]_vars

-----------------------------------------------------------------------------
(* The agent over an index that holds more text than the context budget *)

\* A statement of one page that gives 16 chunks of 1000 characters, and a
\* short one.
LongPdf == Pdf(<<Text(13000, 0)>>)
ShortPdf == Pdf(<<Text(300, 1)>>)

\* The index after embed_pdf of the long PDF as jan.pdf and of the short one
\* as feb.pdf.
IndexAfterUploads(s) ==
    LET first == EmbedPdfSync(s, EmptyBag, LongPdf, "jan.pdf", "ok")
        second == EmbedPdfSync(s, first.index, ShortPdf, "feb.pdf", "ok")
    IN  second.index

InitBudget ==
    /\ settings \in {s \in Settings : s.open_api_key # "" /\ s.database_url # ""}
    /\ index = IndexAfterUploads(settings)
    /\ retriever = NewRetriever
    /\ built = NothingBuilt
    /\ pc = "idle"
    /\ op = [name |-> ""]
    /\ worker = Idle
    /\ calls = <<>>
    /\ ret = None
    /\ agent = IdleAgent
    /\ ctx = NoContext
    /\ chunking = NoPage
    /\ threads = NoThreads
    /\ http = NoRequests
    /\ masking = NoUrl

NextBudget ==
    \/ CreateAgent
    \/ GenerateSummary
    \/ GenerateRecommendations
    \/ Retrieved
    \/ Completed
    \/ Finish

SpecBudget == InitBudget /\ [][NextBudget]_vars

-----------------------------------------------------------------------------
(* format_context_for_prompt on its own *)

MaxDocs == 3          \* documents handed to format_context_for_prompt

\* Documents whose blocks are 148, 199, 200, 400 and 1048 characters long.
ContextDocs ==
    {[source |-> "jan.pdf", page |-> 0, len |-> n] : n \in {100, 151, 152, 352, 1000}}

\* max_tokens: budgets of 400 and 600 characters, and the default.
ContextTokens == {100, 150, DEFAULT_CONTEXT_TOKENS}

InitContext ==
    /\ settings \in {s \in Settings : s.open_api_key # "" /\ s.database_url # ""}
    /\ index = EmptyBag
    /\ retriever = NewRetriever
    /\ built = NothingBuilt
    /\ pc = "idle"
    /\ op = [name |-> ""]
    /\ worker = Idle
    /\ calls = <<>>
    /\ ret = None
    /\ agent = IdleAgent
    /\ chunking = NoPage
    /\ threads = NoThreads
    /\ http = NoRequests
    /\ masking = NoUrl
    /\ ctx \in {[documents |-> d, max_tokens |-> m, parts |-> <<>>, done |-> FALSE] :
                  d \in UNION {[1..n -> ContextDocs] : n \in 0..MaxDocs},
                  m \in ContextTokens}

\* format_context_for_prompt(documents, query, max_tokens)
FormatContext ==
    /\ ~ctx.done
    /\ ctx' = [ctx EXCEPT
                 !.parts = format_context_for_prompt(ctx.documents, "rent",
                                                     ctx.max_tokens).parts,
                 !.done = TRUE]
    /\ UNCHANGED <<settings, index, retriever, built, pc, op, worker, calls, ret, agent, chunking,
                   otherVars>>

NextContext == FormatContext

SpecContext == InitContext /\ [][NextContext]_vars

-----------------------------------------------------------------------------
(* The text splitter on its own *)

MaxWords == 3         \* words of a page handed to the splitter

\* Lengths of words: shorter than the overlap, between the overlap and the
\* window, just below the window, and longer than the window.
WordLens == {150, 250, 600, 999, 1500, 2000}

\* Page texts of up to MaxWords words.
PageTexts == {Words(w) : w \in UNION {[1..n -> WordLens] : n \in 1..MaxWords}}

InitSplit ==
    /\ settings \in {s \in Settings : s.open_api_key # "" /\ s.database_url # ""}
    /\ index = EmptyBag
    /\ retriever = NewRetriever
    /\ built = NothingBuilt
    /\ pc = "idle"
    /\ op = [name |-> ""]
    /\ worker = Idle
    /\ calls = <<>>
    /\ ret = None
    /\ agent = IdleAgent
    /\ ctx = NoContext
    /\ chunking \in {[text |-> t, chunks |-> <<>>, done |-> FALSE] : t \in PageTexts}
    /\ threads = NoThreads
    /\ http = NoRequests
    /\ masking = NoUrl

\* splitter.split_documents on one page
SplitDocuments ==
    /\ ~chunking.done
    /\ chunking' = [chunking EXCEPT !.chunks = SplitText(chunking.text), !.done = TRUE]
    /\ UNCHANGED <<settings, index, retriever, built, pc, op, worker, calls, ret, agent, ctx,
                   otherVars>>

NextSplit == SplitDocuments

SpecSplit == InitSplit /\ [][NextSplit]_vars

-----------------------------------------------------------------------------
(* app/api/v1/endpoints/data.py: the upload endpoint *)

MAX_FILE_SIZE_BYTES == 50 * 1024 * 1024

PDF_EXTENSION == <<".", "p", "d", "f">>

\* file.filename: None or empty (no characters), or a name.
UploadFilenames ==
    {<<>>,
     <<"j", "a", "n", ".", "p", "d", "f">>,
     <<"J", "A", "N", ".", "P", "D", "F">>,
     <<"p", "d", "f">>,
     <<"n", "o", "t", "e", "s", ".", "t", "x", "t">>}

ContentTypes == {"application/pdf", "text/plain"}

\* len(contents)
UploadSizes == {0, 1024, MAX_FILE_SIZE_BYTES, MAX_FILE_SIZE_BYTES + 1}

\* The bodies of the uploads.
UploadPdfs == {Pdf(<<Text(0, 2)>>), Pdf(<<Text(300, 1)>>), Pdf(<<Text(1500, 0)>>), Malformed}

HTTPException(status_code, detail) ==
    Raise([kind |-> "HTTPException", status_code |-> status_code, detail |-> detail])

\* str.endswith(suffix)
EndsWith(s, suffix) ==
    Len(suffix) <= Len(s) /\ SubSeq(s, Len(s) - Len(suffix) + 1, Len(s)) = suffix

\* The checks of upload_pdf with the size looked at first
ValidateUploadSizeFirst(content_type, filename, size) ==
    IF size > MAX_FILE_SIZE_BYTES
    THEN HTTPException(413, "File size exceeds the 50 MB limit.")
    ELSE IF content_type # "application/pdf"
    THEN HTTPException(400, "Invalid content type. Only PDF files are accepted.")
    ELSE IF filename = <<>> \/ ~EndsWith(Lower(filename), PDF_EXTENSION)
    THEN HTTPException(400, "File must have a .pdf extension.")
    ELSE IF size = 0
    THEN HTTPException(400, "Uploaded file is empty.")
    ELSE None

\* The checks upload_pdf makes before it calls embed_pdf: the HTTPException it
\* raises, or None.
ValidateUpload(content_type, filename, size) ==
    IF content_type # "application/pdf"
    THEN HTTPException(400, "Invalid content type. Only PDF files are accepted.")
    ELSE IF filename = <<>> \/ ~EndsWith(Lower(filename), PDF_EXTENSION)
    THEN HTTPException(400, "File must have a .pdf extension.")
    ELSE IF size = 0
    THEN HTTPException(400, "Uploaded file is empty.")
    ELSE IF size > MAX_FILE_SIZE_BYTES
    THEN HTTPException(413, "File size exceeds the 50 MB limit.")
    ELSE None

GENERIC_DETAIL == "Failed to process the file. Please try again."

\* upload_pdf's handler passing the text of the exception on
UploadResultWithExceptionText(filename, size, out) ==
    IF out.kind = "raise"
    THEN HTTPException(500, out.error)
    ELSE Ok([status_code |-> 201, filename |-> filename, size_bytes |-> size,
             chunks_stored |-> out.value])

\* What upload_pdf makes of what embed_pdf returned or raised.
UploadResult(filename, size, out) ==
    IF out.kind = "raise"
    THEN HTTPException(500, GENERIC_DETAIL)
    ELSE Ok([status_code |-> 201, filename |-> filename, size_bytes |-> size,
             chunks_stored |-> out.value])

InitUpload ==
    /\ settings \in Settings
    /\ index = EmptyBag
    /\ retriever = NewRetriever
    /\ built = NothingBuilt
    /\ pc = "idle"
    /\ op = [name |-> ""]
    /\ worker = Idle
    /\ calls = <<>>
    /\ ret = None
    /\ agent = IdleAgent
    /\ ctx = NoContext
    /\ chunking = NoPage
    /\ threads = NoThreads
    /\ http = NoRequests
    /\ masking = NoUrl

\* upload_pdf(file), up to the await in embed_pdf
UploadPdf ==
    \E content_type \in ContentTypes, filename \in UploadFilenames,
       size \in UploadSizes, pdf \in UploadPdfs :
        LET rejection == ValidateUpload(content_type, filename, size)
        IN  /\ CallerFree
            /\ BagCardinality(index) + Len(SplitPages(pdf.pages, 1, filename)) <= MaxRows
            /\ op' = [name |-> "upload_pdf", content_type |-> content_type,
                      filename |-> filename, size |-> size, pdf |-> pdf]
            /\ calls' = <<>>
            /\ IF rejection # None
               THEN /\ pc' = "raised"
                    /\ ret' = rejection
                    /\ worker' = Idle
               ELSE /\ pc' = "awaiting"
                    /\ ret' = None
                    /\ worker' = Submitted("_embed_pdf_sync", None)
            /\ UNCHANGED <<settings, index, retriever, built, agentVars>>

\* embed_pdf has ended: upload_pdf answers 201, or 500.
ResumeUpload ==
    /\ pc = "awaiting"
    /\ Awaited(worker)
    /\ op.name = "upload_pdf"
    /\ ret' = UploadResult(op.filename, op.size, worker.out)
    /\ pc' = IF ret'.kind = "ok" THEN "returned" ELSE "raised"
    /\ UNCHANGED <<settings, index, retriever, built, op, worker, calls, agentVars>>

NextUpload ==
    \/ UploadPdf
    \/ RunEmbedPdfSync
    \/ ResumeUpload
    \/ Finish

SpecUpload == InitUpload /\ [][NextUpload]_vars

-----------------------------------------------------------------------------
(* app/core/vector_store.py: _safe_db_url, on connection URLs that are *)
(* sequences of characters *)

\* str.find(sub): the first position at which sub occurs in s, 0 if none
Find(s, sub) ==
    LET hits == {i \in 1..(Len(s) - Len(sub) + 1) : SubSeq(s, i, i + Len(sub) - 1) = sub}
    IN  IF hits = {} THEN 0 ELSE CHOOSE i \in hits : \A j \in hits : i <= j

\* str.rfind(sub): the last position at which sub occurs in s, 0 if none
RFind(s, sub) ==
    LET hits == {i \in 1..(Len(s) - Len(sub) + 1) : SubSeq(s, i, i + Len(sub) - 1) = sub}
    IN  IF hits = {} THEN 0 ELSE CHOOSE i \in hits : \A j \in hits : j <= i

\* str.replace(old, new, 1): the first occurrence of old, if any
ReplaceFirst(s, old, new) ==
    LET i == Find(s, old)
    IN  IF i = 0
        THEN s
        ELSE SubSeq(s, 1, i - 1) \o new \o SubSeq(s, i + Len(old), Len(s))

\* The characters urlsplit accepts in a scheme.
SCHEME_CHARS ==
    {LOWER[i] : i \in 1..Len(LOWER)} \cup {UPPER[i] : i \in 1..Len(UPPER)}
    \cup {"0", "1", "2", "3", "4", "5", "6", "7", "8", "9", "+", "-", "."}

\* urlparse(url).netloc: what follows "scheme://" up to the first "/", "?" or "#".
Netloc(url) ==
    LET colon == Find(url, <<":">>)
        scheme == colon > 1 /\ \A i \in 1..(colon - 1) : url[i] \in SCHEME_CHARS
        rest == IF scheme THEN SubSeq(url, colon + 1, Len(url)) ELSE url
        ends == {i \in 3..Len(rest) : rest[i] \in {"/", "?", "#"}}
        end == IF ends = {} THEN Len(rest) + 1
               ELSE CHOOSE i \in ends : \A j \in ends : i <= j
    IN  IF Len(rest) >= 2 /\ rest[1] = "/" /\ rest[2] = "/"
        THEN SubSeq(rest, 3, end - 1)
        ELSE <<>>

\* urlparse raises ValueError for a netloc with one bracket only.
UrlParseRaises(url) ==
    LET netloc == Netloc(url)
    IN  (Find(netloc, <<"[">>) # 0) # (Find(netloc, <<"]">>) # 0)

\* urlparse(url).password: None without "@" or without ":" before the last "@".
Password(url) ==
    LET netloc == Netloc(url)
        at == RFind(netloc, <<"@">>)
        userinfo == SubSeq(netloc, 1, at - 1)
        colon == Find(userinfo, <<":">>)
    IN  IF at = 0 \/ colon = 0
        THEN None
        ELSE Str(SubSeq(userinfo, colon + 1, Len(userinfo)))

MASK == <<"*", "*", "*">>

\* _safe_db_url
safe_db_url(url) ==
    LET password == Password(url)
    IN  IF ~UrlParseRaises(url) /\ password # None /\ password.value # <<>>
        THEN ReplaceFirst(url, password.value, MASK)
        ELSE url

\* The components of the connection URLs: the password is None (no ":" after
\* the user), empty, or a string that may occur elsewhere in the URL.
UrlSchemes == {<<"p", "o", "s", "t", "g", "r", "e", "s", "q", "l">>, <<"p", "o", "s", "t", "g", "r", "e", "s", "q", "l", "+", "p", "s", "y", "c", "o", "p", "g">>}
UrlUsers == {<<>>, <<"a", "p", "p">>, <<"p", "o", "s", "t", "g", "r", "e", "s">>}
UrlPasswords == {None, Str(<<>>), Str(<<"s", "3", "c", "r", "e", "t">>), Str(<<"p", "o", "s", "t", "g", "r", "e", "s">>), Str(<<"a", "p", "p">>), Str(<<"p">>), Str(<<"5", "4", "3", "2">>)}
UrlHosts == {<<"d", "b">>, <<"l", "o", "c", "a", "l", "h", "o", "s", "t">>}
UrlPorts == {<<>>, <<"5", "4", "3", "2">>}
UrlPaths == {<<"f", "i", "n", "a", "n", "c", "e">>, <<"a", "p", "p">>}

UrlParts ==
    [scheme : UrlSchemes, user : UrlUsers, password : UrlPasswords,
     host : UrlHosts, port : UrlPorts, path : UrlPaths]

\* scheme://[user[:password]@]host[:port]/path
BuildUrl(parts) ==
    LET userinfo == parts.user
                    \o (IF parts.password = None THEN <<>>
                        ELSE <<":">> \o parts.password.value)
    IN  parts.scheme \o <<":", "/", "/">>
        \o (IF userinfo = <<>> THEN <<>> ELSE userinfo \o <<"@">>)
        \o parts.host
        \o (IF parts.port = <<>> THEN <<>> ELSE <<":">> \o parts.port)
        \o <<"/">> \o parts.path

InitUrl ==
    /\ settings \in {s \in Settings : s.open_api_key # "" /\ s.database_url # ""}
    /\ index = EmptyBag
    /\ retriever = NewRetriever
    /\ built = NothingBuilt
    /\ pc = "idle"
    /\ op = [name |-> ""]
    /\ worker = Idle
    /\ calls = <<>>
    /\ ret = None
    /\ agent = IdleAgent
    /\ ctx = NoContext
    /\ chunking = NoPage
    /\ threads = NoThreads
    /\ http = NoRequests
    /\ masking \in {[parts |-> p, url |-> BuildUrl(p), result |-> <<>>, done |-> FALSE] :
                      p \in UrlParts}

\* _safe_db_url(url)
SafeDbUrl ==
    /\ ~masking.done
    /\ masking' = [masking EXCEPT !.result = safe_db_url(masking.url), !.done = TRUE]
    /\ UNCHANGED <<settings, index, retriever, built, pc, op, worker, calls, ret, agent, ctx,
                   chunking, threads, http>>

NextUrl == SafeDbUrl

SpecUrl == InitUrl /\ [][NextUrl]_vars

-----------------------------------------------------------------------------
(* One DocumentRetriever shared by concurrent first calls of retrieve: each *)
(* call's _retrieve_sync runs on a thread of the executor's pool, and the    *)
(* threads interleave between the reads and the writes of the handles       *)

MaxThreads == 2       \* concurrent calls of retrieve on the one retriever

IdleThread == [pc |-> "idle", made |-> None, store |-> None, embeddings |-> None,
               out |-> None]

InitShared ==
    /\ settings \in Settings
    /\ index = EmptyBag
    /\ retriever = NewRetriever
    /\ built = NothingBuilt
    /\ pc = "idle"
    /\ op = [name |-> ""]
    /\ worker = Idle
    /\ calls = <<>>
    /\ ret = None
    /\ agent = IdleAgent
    /\ ctx = NoContext
    /\ chunking = NoPage
    /\ threads = [t \in 1..MaxThreads |-> IdleThread]
    /\ http = NoRequests
    /\ masking = NoUrl

sharedVars == <<settings, index, pc, op, worker, calls, ret, agent, ctx, chunking, http, masking>>

\* retrieve(query, k): run_in_executor hands _retrieve_sync to a pool thread.
StartRetrieveSync ==
    \E t \in DOMAIN threads :
        /\ threads[t].pc = "idle"
        /\ threads' = [threads EXCEPT ![t].pc = "check_embeddings"]
        /\ UNCHANGED <<retriever, built, sharedVars>>

\* _ensure_initialized: if self._embeddings is None
CheckEmbeddings ==
    \E t \in DOMAIN threads :
        /\ threads[t].pc = "check_embeddings"
        /\ threads' = [threads EXCEPT
                         ![t].pc = IF retriever.embeddings = None
                                   THEN "make_embeddings"
                                   ELSE "check_vector_store"]
        /\ UNCHANGED <<retriever, built, sharedVars>>

\* _ensure_initialized: get_embeddings()
MakeEmbeddings ==
    \E t \in DOMAIN threads :
        LET e == get_embeddings(settings, built.embeddings + 1)
        IN  /\ threads[t].pc = "make_embeddings"
            /\ IF e.kind = "raise"
               THEN /\ threads' = [threads EXCEPT ![t].pc = "raised", ![t].out = e]
                    /\ UNCHANGED built
               ELSE /\ threads' = [threads EXCEPT ![t].pc = "set_embeddings",
                                                  ![t].made = e.value]
                    /\ built' = [built EXCEPT !.embeddings = @ + 1]
            /\ UNCHANGED <<retriever, sharedVars>>

\* _ensure_initialized: self._embeddings = ...
SetEmbeddings ==
    \E t \in DOMAIN threads :
        /\ threads[t].pc = "set_embeddings"
        /\ retriever' = [retriever EXCEPT !.embeddings = threads[t].made]
        /\ threads' = [threads EXCEPT ![t].pc = "check_vector_store", ![t].made = None]
        /\ UNCHANGED <<built, sharedVars>>

\* _ensure_initialized: if self._vector_store is None
CheckVectorStore ==
    \E t \in DOMAIN threads :
        /\ threads[t].pc = "check_vector_store"
        /\ threads' = [threads EXCEPT
                         ![t].pc = IF retriever.vector_store = None
                                   THEN "make_vector_store"
                                   ELSE "search"]
        /\ UNCHANGED <<retriever, built, sharedVars>>

\* _ensure_initialized: get_vector_store(collection_name, embeddings=self._embeddings)
MakeVectorStore ==
    \E t \in DOMAIN threads, dbUp \in BOOLEAN :
        LET v == get_vector_store(settings, retriever.collection_name,
                                  retriever.embeddings, built.vector_store + 1, dbUp)
        IN  /\ threads[t].pc = "make_vector_store"
            /\ IF v.kind = "raise"
               THEN /\ threads' = [threads EXCEPT ![t].pc = "raised", ![t].out = v]
                    /\ UNCHANGED built
               ELSE /\ threads' = [threads EXCEPT ![t].pc = "set_vector_store",
                                                  ![t].made = v.value]
                    /\ built' = [built EXCEPT !.vector_store = @ + 1]
            /\ UNCHANGED <<retriever, sharedVars>>

\* _ensure_initialized: self._vector_store = ...
SetVectorStore ==
    \E t \in DOMAIN threads :
        /\ threads[t].pc = "set_vector_store"
        /\ retriever' = [retriever EXCEPT !.vector_store = threads[t].made]
        /\ threads' = [threads EXCEPT ![t].pc = "search", ![t].made = None]
        /\ UNCHANGED <<built, sharedVars>>

\* _retrieve_sync: self._vector_store.similarity_search(...); the thread notes
\* the store it searched and the embeddings handle the retriever held then.
SearchSharedStore ==
    \E t \in DOMAIN threads :
        /\ threads[t].pc = "search"
        /\ threads' = [threads EXCEPT ![t].pc = "done",
                                      ![t].store = retriever.vector_store,
                                      ![t].embeddings = retriever.embeddings,
                                      ![t].out = Ok(<<>>)]
        /\ UNCHANGED <<retriever, built, sharedVars>>

NextShared ==
    \/ StartRetrieveSync
    \/ CheckEmbeddings
    \/ MakeEmbeddings
    \/ SetEmbeddings
    \/ CheckVectorStore
    \/ MakeVectorStore
    \/ SetVectorStore
    \/ SearchSharedStore

SpecShared == InitShared /\ [][NextShared]_vars

-----------------------------------------------------------------------------
(* app/api/v1/endpoints/agent.py, search.py: HTTP requests in flight at the *)
(* same time, each handled by its own coroutine                              *)

MaxRequests == 2      \* requests received

AgentEndpoints == {"generate_summary", "generate_recommendations"}
SearchEndpoints == {"search_documents", "search_with_scores"}

\* The endpoints answer with 500 whatever the handler raised, the detail
\* being the text of the exception after the endpoint's prefix.
EndpointError(endpoint, e) ==
    HTTPException(500,
                  (IF endpoint = "generate_summary" THEN "Failed to generate summary: "
                   ELSE IF endpoint = "generate_recommendations"
                   THEN "Failed to generate recommendations: "
                   ELSE "Retrieval error: ") \o e.error)

\* A retriever kept at module level and handed to every request
ShareRetriever(pool, request) ==
    IF pool = <<>>
    THEN <<[retriever |-> NewRetriever, built |-> NothingBuilt,
            owner |-> request, users |-> {}]>>
    ELSE pool

\* DocumentRetriever() in the handler of a request (for the agent endpoints:
\* in FinancialAgent.__init__): the retrievers constructed so far, and the new
\* one, which no request has used yet.
ConstructRetriever(pool, request) ==
    Append(pool, [retriever |-> NewRetriever, built |-> NothingBuilt,
                  owner |-> request, users |-> {}])

InitRequests ==
    /\ settings \in Settings
    /\ index = EmptyBag
    /\ retriever = NewRetriever
    /\ built = NothingBuilt
    /\ pc = "idle"
    /\ op = [name |-> ""]
    /\ worker = Idle
    /\ calls = <<>>
    /\ ret = None
    /\ agent = IdleAgent
    /\ ctx = NoContext
    /\ chunking = NoPage
    /\ threads = NoThreads
    /\ http = NoRequests
    /\ masking = NoUrl

requestVars == <<settings, index, retriever, built, pc, op, worker, calls, ret, agent, ctx,
                 chunking, threads, masking>>

\* A request arrives at one of the four endpoints.
ReceiveRequest ==
    \E endpoint \in AgentEndpoints \cup SearchEndpoints :
        /\ Len(http.requests) < MaxRequests
        /\ http' = [http EXCEPT
                      !.requests = Append(@, [endpoint |-> endpoint, pc |-> "received",
                                              retriever |-> 0, out |-> None])]
        /\ UNCHANGED requestVars

\* The handler constructs FinancialAgent(), which raises without an API key
\* and else constructs a DocumentRetriever, or constructs DocumentRetriever().
ConstructForRequest ==
    \E r \in 1..Len(http.requests) :
        LET request == http.requests[r]
            pool == ConstructRetriever(http.retrievers, r)
        IN  /\ request.pc = "received"
            /\ IF request.endpoint \in AgentEndpoints /\ settings.open_api_key = ""
               THEN http' = [http EXCEPT
                               !.requests[r].pc = "failed",
                               !.requests[r].out = EndpointError(request.endpoint,
                                                                 Raise(CONFIG_KEY_ERROR))]
               ELSE http' = [http EXCEPT
                               !.retrievers = pool,
                               !.requests[r].retriever = Len(pool),
                               !.requests[r].pc = "constructed"]
            /\ UNCHANGED requestVars

\* The handler awaits retrieve / retrieve_with_scores of the retriever it
\* holds: _ensure_initialized, then the search.
RetrieveForRequest ==
    \E r \in 1..Len(http.requests), dbUp \in BOOLEAN, netOk \in BOOLEAN :
        LET request == http.requests[r]
            i == request.retriever
            held == http.retrievers[i]
        IN  /\ request.pc = "constructed"
            /\ \E answer \in SearchAnswers(index, "rent", 4, NoFilter) :
                  LET res == RetrieveSync(held.retriever, held.built, settings, "rent", 4,
                                          NoFilter,
                                          request.endpoint = "search_with_scores",
                                          dbUp, netOk, answer)
                  IN  http' = [http EXCEPT
                                 !.retrievers[i].retriever = res.retriever,
                                 !.retrievers[i].built = res.built,
                                 !.retrievers[i].users = @ \cup {r},
                                 !.requests[r].pc = IF res.out.kind = "ok"
                                                    THEN "retrieved" ELSE "failed",
                                 !.requests[r].out = IF res.out.kind = "ok"
                                                     THEN res.out
                                                     ELSE EndpointError(request.endpoint,
                                                                        res.out)]
            /\ UNCHANGED requestVars

\* The handler answers: the response, or the 500.
RespondToRequest ==
    \E r \in 1..Len(http.requests) :
        /\ http.requests[r].pc \in {"retrieved", "failed"}
        /\ http' = [http EXCEPT !.requests[r].pc = "responded"]
        /\ UNCHANGED requestVars

NextRequests ==
    \/ ReceiveRequest
    \/ ConstructForRequest
    \/ RetrieveForRequest
    \/ RespondToRequest

SpecRequests == InitRequests /\ [][NextRequests]_vars

-----------------------------------------------------------------------------
(* Properties *)

\* The number of characters two chunks of a page have in common: negative when
\* characters of the text lie between them.
Overlap(a, b) == (a.start + a.len) - b.start

\* Has no page with text outside whitespace.
NoExtractableText(pdf) ==
    pdf.valid /\ \A i \in 1..Len(pdf.pages) : pdf.pages[i].isNone \/ pdf.pages[i].body = 0

Ended == pc \in {"returned", "raised"}

\* C11 as stated: every chunk is at most CHUNK_SIZE characters long, and every
\* chunk of a page overlaps the next one by CHUNK_OVERLAP characters, the last
\* chunk of the page, which may be shorter, left aside.
C11_OverlapIsConfiguredAmount ==
    chunking.done =>
        /\ \A i \in 1..Len(chunking.chunks) : chunking.chunks[i].len <= CHUNK_SIZE
        /\ \A i \in 1..(Len(chunking.chunks) - 2) :
              Overlap(chunking.chunks[i], chunking.chunks[i + 1]) = CHUNK_OVERLAP

\* C11 as amended: every chunk is at most CHUNK_SIZE characters long; a chunk
\* overlaps the next chunk of its page by at most CHUNK_OVERLAP characters, and
\* at most the space between two words lies between them; the chunks start at
\* the start of the text and end at its end; and the chunks of a text without
\* whitespace overlap by exactly CHUNK_OVERLAP, all but the last being
\* CHUNK_SIZE long.
C11_ChunksWithinWindowOverlapAtMost ==
    chunking.done =>
        LET chunks == chunking.chunks
            n == Len(chunks)
        IN  /\ n >= 1
            /\ \A i \in 1..n : chunks[i].len >= 1 /\ chunks[i].len <= CHUNK_SIZE
            /\ \A i \in 1..(n - 1) :
                  /\ Overlap(chunks[i], chunks[i + 1]) <= CHUNK_OVERLAP
                  /\ Overlap(chunks[i], chunks[i + 1]) >= -1
                  /\ chunks[i].start < chunks[i + 1].start
            /\ chunks[1].start = 0
            /\ chunks[n].start + chunks[n].len = chunking.text.body
            /\ Len(chunking.text.words) = 1 =>
                  /\ \A i \in 1..(n - 1) :
                        /\ Overlap(chunks[i], chunks[i + 1]) = CHUNK_OVERLAP
                        /\ chunks[i].len = CHUNK_SIZE

\* A page of three words was split into two chunks that overlap by one word of
\* 150 characters.
C11_Witness ==
    /\ chunking.done
    /\ Len(chunking.text.words) = 3
    /\ Len(chunking.chunks) = 2
    /\ Overlap(chunking.chunks[1], chunking.chunks[2]) = 150

\* The PDFs of which one page holds 1500 characters of text and every other
\* page is blank.
OnePageOf1500(pdf) ==
    /\ pdf.valid
    /\ \E i \in 1..Len(pdf.pages) :
          /\ ExtractText(pdf.pages[i]).body = 1500
          /\ \A j \in (1..Len(pdf.pages)) \ {i} : ExtractText(pdf.pages[j]).body = 0

\* The Documents handed to PGVector.from_documents by the current operation.
UpsertedDocs == calls[CHOOSE c \in CallsTo(calls, "PGVector.from_documents") : TRUE].arg.docs

\* C12 as stated: an ingest that returns for a PDF whose only page with text
\* holds 1500 characters reports 2 chunks and has stored 2 chunks.
C12_Page1500GivesTwoChunks ==
    (pc = "returned" /\ op.name = "embed_pdf" /\ OnePageOf1500(op.pdf)) =>
        /\ ret = Ok(2)
        /\ CallsTo(calls, "PGVector.from_documents") # {}
        /\ Len(UpsertedDocs) = 2

\* C12 as amended: an ingest that returns for a PDF whose only page with text
\* holds 1500 characters without whitespace between them reports 2 chunks and
\* has stored 2 chunks, of the first 1000 and the last 700 characters of that
\* page; the blank pages give none.
C12_Page1500WithoutWhitespaceGivesTwoChunks ==
    (pc = "returned" /\ op.name = "embed_pdf" /\ OnePageOf1500(op.pdf)
     /\ \A i \in 1..Len(op.pdf.pages) : Len(ExtractText(op.pdf.pages[i]).words) <= 1) =>
        /\ ret = Ok(2)
        /\ Cardinality(CallsTo(calls, "PGVector.from_documents")) = 1
        /\ Len(UpsertedDocs) = 2
        /\ UpsertedDocs[1].len = CHUNK_SIZE
        /\ UpsertedDocs[2].len = 1500 - (CHUNK_SIZE - CHUNK_OVERLAP)
        /\ \A d \in 1..2 :
              /\ UpsertedDocs[d].source = op.filename
              /\ ExtractText(op.pdf.pages[UpsertedDocs[d].page + 1]).body = 1500
              /\ BagIn(UpsertedDocs[d], index)

\* The ingest of a PDF of a page of 1500 characters and a blank page returned 2.
C12_Witness ==
    /\ pc = "returned"
    /\ op.name = "embed_pdf"
    /\ op.pdf = Pdf(<<Text(1500, 0), Text(0, 2)>>)
    /\ ret = Ok(2)
    /\ BagCardinality(index) = 3

\* The first check of the upload that fails, in the order content type, file
\* name, empty body, size: the status and the detail of the rejection.
FirstFailingCheck(o) ==
    LET n == Len(o.filename)
        endsInPdf == /\ n >= 4
                     /\ o.filename[n - 3] = "."
                     /\ o.filename[n - 2] \in {"p", "P"}
                     /\ o.filename[n - 1] \in {"d", "D"}
                     /\ o.filename[n] \in {"f", "F"}
    IN  IF o.content_type # "application/pdf"
        THEN <<400, "Invalid content type. Only PDF files are accepted.">>
        ELSE IF ~endsInPdf THEN <<400, "File must have a .pdf extension.">>
        ELSE IF o.size = 0 THEN <<400, "Uploaded file is empty.">>
        ELSE IF o.size > 50 * 1024 * 1024 THEN <<413, "File size exceeds the 50 MB limit.">>
        ELSE <<>>

\* C13: an upload whose content type is not application/pdf, whose file name
\* does not end in .pdf (in any case of letters), whose body is empty or whose
\* body is larger than 50 MB is rejected with the status and detail of the
\* first of these checks that fails (400, 400, 400, 413), and embed_pdf is not
\* called for it.
C13_UploadRejectedBeforeIngestion ==
    (op.name = "upload_pdf" /\ FirstFailingCheck(op) # <<>>) =>
        /\ pc = "raised"
        /\ ret = HTTPException(FirstFailingCheck(op)[1], FirstFailingCheck(op)[2])
        /\ worker = Idle
        /\ calls = <<>>

\* An upload of more than 50 MB with the wrong content type was rejected for
\* its content type, after an upload had stored chunks.
C13_Witness ==
    /\ pc = "raised"
    /\ op.name = "upload_pdf"
    /\ op.content_type = "text/plain"
    /\ op.size > MAX_FILE_SIZE_BYTES
    /\ ret.error.status_code = 400
    /\ index # EmptyBag

\* C14: for an upload that passes the checks, upload_pdf answers 500 with the
\* fixed detail whenever embed_pdf raised, and 201 only when embed_pdf
\* returned, with chunks_stored the value embed_pdf returned.
C14_IngestionErrorGives500 ==
    (op.name = "upload_pdf" /\ Ended /\ FirstFailingCheck(op) = <<>>) =>
        /\ worker.status = "done"
        /\ worker.out.kind = "raise" =>
              /\ pc = "raised"
              /\ ret = HTTPException(500, "Failed to process the file. Please try again.")
        /\ worker.out.kind = "ok" =>
              /\ pc = "returned"
              /\ ret.value.status_code = 201
              /\ ret.value.chunks_stored = worker.out.value
              /\ ret.value.chunks_stored = Len(SplitPages(op.pdf.pages, 1, op.filename))

\* An upload of exactly 50 MB named JAN.PDF was answered 500 because the
\* embedding provider failed.
C14_Witness ==
    /\ pc = "raised"
    /\ op.name = "upload_pdf"
    /\ op.size = MAX_FILE_SIZE_BYTES
    /\ op.filename = <<"J", "A", "N", ".", "P", "D", "F">>
    /\ worker.out = Raise(EMBEDDING_ERROR)
    /\ ret.error.status_code = 500

\* C15: in every result of generate_summary or generate_recommendations,
\* documents_used is the number of chunks the retrieval of that call returned,
\* chunks of the same source counted each, and so at least the number of
\* sources.
C15_DocumentsUsedCountsChunks ==
    (pc = "returned" /\ op.name \in GenerationOps) =>
        LET searches == CallsTo(calls, "similarity_search")
        IN  /\ Cardinality(searches) = 1
            /\ \A c \in searches :
                  ret.value.documents_used = Len(calls[c].arg.answer)
            /\ ret.value.documents_used = Len(op.retrieved.value)
            /\ ret.value.documents_used >= Len(ret.value.sources)

\* A result built from two chunks of one source.
C15_Witness ==
    /\ pc = "returned"
    /\ op.name = "generate_recommendations"
    /\ ret.value.documents_used = 2
    /\ Len(ret.value.sources) = 1

\* C16: when an ingest has returned, the index holds each chunk row of the
\* ingested PDF as often as the PDF yields it, however often that PDF was
\* ingested under that filename before: ingesting it twice leaves the rows of
\* ingesting it once.
C16_ReingestKeepsRows ==
    (pc = "returned" /\ op.name = "embed_pdf") =>
        LET docs == SplitPages(op.pdf.pages, 1, op.filename)
        IN  \A i \in 1..Len(docs) : CopiesIn(docs[i], index) = Count(docs, docs[i])

\* C17 as stated: an ingest made without database URL or without API key ends
\* in a configuration error, and has called neither the embedding provider nor
\* the index.
C17_IngestConfigurationError ==
    (op.name = "embed_pdf" /\ (settings.database_url = "" \/ settings.open_api_key = "")) =>
        /\ calls = <<>>
        /\ Ended =>
              /\ pc = "raised"
              /\ ret \in {Raise(CONFIG_DB_ERROR), Raise(CONFIG_KEY_ERROR)}

\* C17 as amended: an ingest made without database URL raises the
\* configuration error before the PDF is read; an ingest made with database URL
\* and without API key raises the configuration error when the PDF is readable
\* and has a page with text, returns 0 when the PDF is readable and has no
\* text, and raises the reader's error when the PDF is unreadable; none of these
\* calls the embedding provider or the index.
C17_ConfigurationErrorAtFirstUse ==
    (op.name = "embed_pdf" /\ (settings.database_url = "" \/ settings.open_api_key = "")) =>
        /\ calls = <<>>
        /\ index = EmptyBag
        /\ Ended =>
              ret = IF settings.database_url = "" THEN Raise(CONFIG_DB_ERROR)
                    ELSE IF ~op.pdf.valid THEN Raise(PDF_ERROR)
                    ELSE IF NoExtractableText(op.pdf) THEN Ok(0)
                    ELSE Raise(CONFIG_KEY_ERROR)

\* The ingest of a PDF with text raised the configuration error for the missing
\* API key, the database URL being present.
C17_Witness ==
    /\ pc = "raised"
    /\ op.name = "embed_pdf"
    /\ settings.database_url # ""
    /\ ~NoExtractableText(op.pdf)
    /\ ret = Raise(CONFIG_KEY_ERROR)

\* The characters of the blocks of the first n documents.
RECURSIVE BlockChars(_, _)
BlockChars(documents, n) ==
    IF n = 0 THEN 0 ELSE BlockChars(documents, n - 1) + DocChars(n, documents[n])

\* The documents whose block, added whole after the blocks before it, would go
\* beyond the budget.
Overflowing(c) ==
    {i \in 1..Len(c.documents) :
        BlockChars(c.documents, i) > c.max_tokens * CHARS_PER_TOKEN}

FirstOverflowing(c) == CHOOSE i \in Overflowing(c) : \A j \in Overflowing(c) : i <= j

\* What is left of the budget when the first block that does not fit is reached.
RemainingAllowance(c) ==
    c.max_tokens * CHARS_PER_TOKEN - BlockChars(c.documents, FirstOverflowing(c) - 1)

C19_BlocksArePrefixOfInput ==
    ctx.done =>
        LET m == Len(ctx.parts)
        IN  /\ m <= Len(ctx.documents)
            /\ \A j \in 1..m :
                  /\ ctx.parts[j].doc = j
                  /\ ctx.parts[j].truncated => j = m
                  /\ ~ctx.parts[j].truncated =>
                        ctx.parts[j].chars = DocChars(j, ctx.documents[j])
            /\ IF Overflowing(ctx) = {}
               THEN m = Len(ctx.documents) /\ \A j \in 1..m : ~ctx.parts[j].truncated
               ELSE /\ m \in {FirstOverflowing(ctx) - 1, FirstOverflowing(ctx)}
                    /\ m = FirstOverflowing(ctx) => ctx.parts[m].truncated

\* The second block did not fit, and the third, which would have fitted into
\* what was left, is not in the context.
C19_Witness ==
    /\ ctx.done
    /\ Len(ctx.documents) = 3
    /\ Len(ctx.parts) = 1
    /\ BlockChars(ctx.documents, 1) + DocChars(3, ctx.documents[3])
       <= ctx.max_tokens * CHARS_PER_TOKEN

\* The other generation operation.
OtherOp(name) ==
    IF name = "generate_summary" THEN "generate_recommendations" ELSE "generate_summary"

\* Two results are equal in documents_used, sources, query and model.
SameResult(a, b) ==
    /\ a.kind = b.kind
    /\ a.kind = "raise" => a = b
    /\ a.kind = "ok" =>
          /\ a.value.documents_used = b.value.documents_used
          /\ a.value.sources = b.value.sources
          /\ a.value.query = b.value.query
          /\ a.value.model = b.value.model

\* Two completion requests are equal in all but the template of the system
\* prompt.
SameRequest(a, b) ==
    /\ a.fn = b.fn
    /\ a.arg.model = b.arg.model
    /\ a.arg.temperature = b.arg.temperature
    /\ a.arg.limit = b.arg.limit
    /\ a.arg.messages[2] = b.arg.messages[2]
    /\ a.arg.messages[1].role = b.arg.messages[1].role
    /\ a.arg.messages[1].content.context = b.arg.messages[1].content.context

\* C20: when a generation call has ended, the other generation operation,
\* given the same query, the same retrieved documents and the same outcome of
\* the completion, ends the same way (returned or raised), requests the same
\* completion but for the template of the system prompt, and returns a result
\* equal in documents_used, sources, query and model; the name of the text
\* field, the template and the text of the fallback differ.
C20_SameStateMachine ==
    (Ended /\ op.name \in GenerationOps /\ op.retrieved.kind = "ok") =>
        LET documents == op.retrieved.value
            other == AfterRetrieval(OtherOp(op.name), agent, op.query, documents)
            requests == {c \in 1..Len(calls) : calls[c].fn = "chat.completions.create"}
        IN  IF op.completion = None
            THEN /\ other.pc = pc
                 /\ other.requests = <<>> /\ requests = {}
                 /\ SameResult(other.ret, ret)
                 /\ other.ret.value.text_key # ret.value.text_key
                 /\ other.ret.value.text # ret.value.text
            ELSE /\ other.pc = "completing"
                 /\ Len(other.requests) = 2 /\ Cardinality(requests) = 1
                 /\ \A c \in requests :
                       /\ c = Len(calls)
                       /\ other.requests[1] = calls[c - 1]
                       /\ SameRequest(other.requests[2], calls[c])
                       /\ other.requests[2].arg.messages[1].content.template
                          # calls[c].arg.messages[1].content.template
                 /\ LET text == GenerateCompletion(op.completion)
                        sources == IF ret.kind = "ok" THEN ret.value.sources ELSE <<>>
                        end == AfterCompletion(OtherOp(op.name), agent, op.query,
                                               documents, text, sources)
                    IN  /\ end.pc = pc
                        /\ SameResult(end.ret, ret)
                        /\ ret.kind = "ok" =>
                              /\ end.ret.value.text_key # ret.value.text_key
                              /\ end.ret.value.text = ret.value.text

\* generate_recommendations returned a result built from the one chunk that
\* retrieval with k = 1 returned from an index of more rows.
C20_Witness ==
    /\ pc = "returned"
    /\ op.name = "generate_recommendations"
    /\ op.k = 1
    /\ op.completion = Completion(1, TRUE)
    /\ BagCardinality(index) >= 2
    /\ ret.value.text_key = "recommendations"
    /\ ret.value.documents_used = 1

\* C1: when retrieval returns no document, generate_summary and
\* generate_recommendations return (they do not raise) a result with
\* documents_used = 0, no sources and a non-empty model.
C1_FallbackOnZeroDocuments ==
    (op.name \in GenerationOps /\ op.retrieved = Ok(<<>>)) =>
        /\ pc = "returned"
        /\ ret.kind = "ok"
        /\ ret.value.documents_used = 0
        /\ ret.value.sources = <<>>
        /\ ret.value.model # <<>>

\* A generation call with k = 20 and a source filter found nothing in an index
\* that holds rows, and returned.
C1_Witness ==
    /\ pc = "returned"
    /\ op.name = "generate_recommendations"
    /\ op.retrieved = Ok(<<>>)
    /\ op.k = K_MAX
    /\ op.source_filter = Str("jan.pdf")
    /\ index # EmptyBag

\* C2 as stated: for a PDF without extractable text, embed_pdf returns 0 and
\* calls neither the embedding provider nor the index.
C2_ReturnsZeroWithoutCalls ==
    (Ended /\ op.name = "embed_pdf" /\ NoExtractableText(op.pdf)) =>
        /\ pc = "returned"
        /\ ret = Ok(0)
        /\ calls = <<>>

\* C2 as amended: for a PDF without extractable text, embed_pdf never calls the
\* embedding provider or the index; it returns 0 when the database URL is
\* configured and raises the configuration error when it is not.
C2_NoCallsAndZeroWhenConfigured ==
    (op.name = "embed_pdf" /\ NoExtractableText(op.pdf)) =>
        /\ calls = <<>>
        /\ Ended =>
              IF settings.database_url = ""
              THEN pc = "raised" /\ ret = Raise(CONFIG_DB_ERROR)
              ELSE pc = "returned" /\ ret = Ok(0)

\* embed_pdf returned 0 for a PDF of two pages without text, the API key being
\* absent.
C2_Witness ==
    /\ pc = "returned"
    /\ op.name = "embed_pdf"
    /\ NoExtractableText(op.pdf)
    /\ Len(op.pdf.pages) = 2
    /\ settings.open_api_key = ""
    /\ ret = Ok(0)

\* C3: the context format_context_for_prompt assembles (its blocks, the
\* truncation marker and the separators between blocks) is at most
\* max_tokens * 4 characters long.
C3_ContextWithinBudget ==
    ctx.done => JoinedChars(ctx.parts) <= ctx.max_tokens * CHARS_PER_TOKEN

\* C4: every completion request carries exactly one token-limit parameter:
\* max_completion_tokens when a member of NEW_API_MODELS is, ignoring case, a
\* prefix of the configured model identifier, and max_tokens otherwise;
\* gpt-4o-mini gets the former and gpt-3.5-turbo the latter.
C4_TokenLimitParameter ==
    \A c \in CallsTo(calls, "chat.completions.create") :
        LET request == calls[c].arg
            id == request.model
            inFamily ==
                \E m \in NEW_API_MODELS :
                    /\ Len(m) <= Len(id)
                    /\ \A i \in 1..Len(m) : LowerChar(id[i]) = LowerChar(m[i])
        IN  /\ id = agent.model
            /\ DOMAIN request.limit =
                  IF inFamily THEN {"max_completion_tokens"} ELSE {"max_tokens"}
            /\ id = GPT_4O_MINI => DOMAIN request.limit = {"max_completion_tokens"}
            /\ id = GPT_35_TURBO => DOMAIN request.limit = {"max_tokens"}

\* A completion was requested for the model "GPT-4O", with max_completion_tokens.
C4_Witness ==
    \E c \in CallsTo(calls, "chat.completions.create") :
        /\ calls[c].arg.model = GPT_4O_UPPER
        /\ DOMAIN calls[c].arg.limit = {"max_completion_tokens"}

\* C5: in a result built from at least one retrieved chunk, sources has no
\* duplicates and holds exactly the sources of the retrieved chunks.
C5_SourcesDeduplicated ==
    (pc = "returned" /\ op.name \in GenerationOps /\ op.retrieved.kind = "ok"
     /\ op.retrieved.value # <<>>) =>
        LET documents == op.retrieved.value
            sources == ret.value.sources
        IN  /\ \A i, j \in 1..Len(sources) : sources[i] = sources[j] => i = j
            /\ {sources[i] : i \in 1..Len(sources)}
               = {documents[i].source : i \in 1..Len(documents)}

\* A result built from three chunks of two sources.
C5_Witness ==
    /\ pc = "returned"
    /\ op.name = "generate_summary"
    /\ op.retrieved.kind = "ok"
    /\ Len(op.retrieved.value) = 3
    /\ Len(ret.value.sources) = 2

\* C6: retrieve (and retrieve_with_scores) returns at most k results, nearest
\* first; it returns min(k, matching rows) of them, all the matching rows when
\* there are at most k; and it returns the index's answer as it is.
C6_AtMostKNearestFirst ==
    (pc = "returned" /\ op.name \in {"retrieve", "retrieve_with_scores"}) =>
        LET documents == IF op.name = "retrieve"
                         THEN ret.value
                         ELSE [i \in 1..Len(ret.value) |-> ret.value[i][1]]
            matching == Matching(index, op.filter)
            answer == calls[Len(calls)].arg.answer
        IN  /\ Len(documents) <= op.k
            /\ \A i \in 1..(Len(documents) - 1) :
                  Distance(op.query, documents[i]) <= Distance(op.query, documents[i + 1])
            /\ Len(documents) = Min(op.k, BagCardinality(matching))
            /\ \A r \in BagToSet(matching) : Count(documents, r) <= matching[r]
            /\ \A i \in 1..Len(documents) : documents[i] \in BagToSet(matching)
            /\ documents = answer

\* retrieve with k = 5 returned the three rows of an index that holds three
\* matching rows, not all at the same distance.
C6_Witness ==
    /\ pc = "returned"
    /\ op.name = "retrieve"
    /\ op.k = 5
    /\ op.filter = SourceFilter("jan.pdf")
    /\ BagCardinality(Matching(index, op.filter)) = 3
    /\ Len(ret.value) = 3
    /\ Distance(op.query, ret.value[1]) < Distance(op.query, ret.value[3])

\* C7: when the chat completion fails, the generation call raises that error,
\* returns no result, and has called the endpoint once.
C7_CompletionFailurePropagates ==
    (op.name \in GenerationOps /\ op.completion.kind = "error") =>
        /\ pc = "raised"
        /\ ret = Raise(op.completion.error)
        /\ Cardinality(CallsTo(calls, "chat.completions.create")) = 1

\* A generation call raised the RateLimitError of the completion endpoint.
C7_Witness ==
    /\ pc = "raised"
    /\ op.name = "generate_summary"
    /\ op.completion = Failure("RateLimitError")

\* C8: a retrieve or retrieve_with_scores call made without API key or without
\* database URL raises the configuration error, and no search is sent to the
\* index.
C8_ConfigurationErrorBeforeSearch ==
    (op.name \in {"retrieve", "retrieve_with_scores"}
     /\ (settings.open_api_key = "" \/ settings.database_url = "")) =>
        /\ CallsTo(calls, "similarity_search") = {}
        /\ CallsTo(calls, "similarity_search_with_score") = {}
        /\ Ended =>
              /\ pc = "raised"
              /\ ret \in {Raise(CONFIG_KEY_ERROR), Raise(CONFIG_DB_ERROR)}

\* retrieve raised the configuration error for the missing database URL, the
\* API key being present.
C8_Witness ==
    /\ pc = "raised"
    /\ op.name = "retrieve"
    /\ settings.open_api_key # ""
    /\ ret = Raise(CONFIG_DB_ERROR)

\* C9: a handle of the retriever, once constructed, is kept by every later
\* call, which constructs no other; each handle is constructed at most once;
\* and a call that returns leaves both handles constructed.
C9_HandlesBuiltOnceAndReused ==
    [][/\ retriever.embeddings # None =>
             /\ retriever'.embeddings = retriever.embeddings
             /\ built'.embeddings = built.embeddings
       /\ retriever.vector_store # None =>
             /\ retriever'.vector_store = retriever.vector_store
             /\ built'.vector_store = built.vector_store
       /\ built'.embeddings <= 1
       /\ built'.vector_store <= 1
       /\ (pc' = "returned" /\ op'.name \in {"retrieve", "retrieve_with_scores",
                                             "retrieve_formatted", "get_retriever"}) =>
             /\ retriever'.embeddings # None
             /\ retriever'.vector_store # None]_vars

\* retrieve_with_scores searched with handles that an earlier call had built.
C9_Witness ==
    /\ pc = "returned"
    /\ op.name = "retrieve_with_scores"
    /\ built = [embeddings |-> 1, vector_store |-> 1]
    /\ CallsTo(calls, "OpenAIEmbeddings") = {}
    /\ CallsTo(calls, "PGVector") = {}
    /\ CallsTo(calls, "similarity_search_with_score") # {}

\* C10: when embed_pdf, retrieve, retrieve_with_scores or retrieve_formatted
\* has returned or raised, the unit of work it handed to the executor has
\* finished, and no unit of work is pending while the caller is idle.
C10_OffloadedWorkAwaited ==
    /\ pc \in {"idle", "returned", "raised"} => worker.status # "pending"
    /\ (Ended /\ op.name \in {"embed_pdf", "retrieve", "retrieve_with_scores",
                              "retrieve_formatted"}) =>
          /\ worker.status = "done"
          /\ ret = worker.out

\* retrieve_formatted returned after its second unit of work had finished.
C10_Witness ==
    /\ pc = "returned"
    /\ op.name = "retrieve_formatted"
    /\ worker.fn = "_format_results_sync"
    /\ worker.status = "done"
    /\ Len(ret.value) = 2

\* The template of the system prompt of a generation operation.
TemplateOf(name) ==
    IF name = "generate_summary" THEN "SUMMARY_SYSTEM_PROMPT"
    ELSE "RECOMMENDATIONS_SYSTEM_PROMPT"

\* C21: every request a generation call sends to the completion endpoint has
\* exactly two messages, the system message first and the user message second;
\* the system message is the template of the operation followed by the context
\* assembled from the chunks the search returned; the user message is the
\* caller's query; the temperature and the token limit are the agent's.
C21_CompletionRequestShape ==
    op.name \in GenerationOps =>
        \A c \in CallsTo(calls, "chat.completions.create") :
            LET request == calls[c].arg
                system == request.messages[1]
                user == request.messages[2]
            IN  /\ Len(request.messages) = 2
                /\ system.role = "system"
                /\ user.role = "user"
                /\ system.content.template = TemplateOf(op.name)
                /\ \E s \in CallsTo(calls, "similarity_search") :
                      /\ s < c
                      /\ system.content.context.parts
                         = ContextParts(calls[s].arg.answer, 1, 0,
                                        DEFAULT_CONTEXT_TOKENS * CHARS_PER_TOKEN)
                      /\ system.content.context.query = op.query
                /\ user.content = op.query
                /\ request.temperature = agent.temperature
                /\ request.temperature = DEFAULT_TEMPERATURE
                /\ request.limit \in {[max_tokens |-> agent.max_tokens],
                                      [max_completion_tokens |-> agent.max_tokens]}
                /\ agent.max_tokens = DEFAULT_MAX_TOKENS

\* generate_summary has sent its completion request for two retrieved chunks
\* and waits for the answer.
C21_Witness ==
    /\ pc = "completing"
    /\ op.name = "generate_summary"
    /\ Len(op.retrieved.value) = 2
    /\ op.query = "groceries"
    /\ CallsTo(calls, "chat.completions.create") # {}

\* The page has text outside whitespace.
PageHasText(page) == ~page.isNone /\ page.body > 0

\* C22: every chunk an ingest hands to the index has the filename of the
\* ingest as its source and, as its page, the zero-based position, among all
\* the pages of the PDF, of a page that has text; the chunks come in the order
\* of their pages, every page with text gives at least one chunk, and a page
\* whose text is missing, empty or whitespace gives none.
C22_ChunkSourceAndPage ==
    (op.name = "embed_pdf" /\ CallsTo(calls, "PGVector.from_documents") # {}) =>
        LET docs == UpsertedDocs
            pages == op.pdf.pages
        IN  /\ \A d \in 1..Len(docs) :
                  /\ docs[d].source = op.filename
                  /\ docs[d].page \in 0..(Len(pages) - 1)
                  /\ PageHasText(pages[docs[d].page + 1])
            /\ \A d \in 1..(Len(docs) - 1) : docs[d].page <= docs[d + 1].page
            /\ \A i \in 1..Len(pages) :
                  PageHasText(pages[i]) <=> \E d \in 1..Len(docs) : docs[d].page = i - 1

\* An ingest of a PDF whose first page has no text and whose second page has
\* some handed over one chunk, of page 1.
C22_Witness ==
    /\ pc = "returned"
    /\ op.name = "embed_pdf"
    /\ Len(op.pdf.pages) = 2
    /\ op.pdf.pages[1].isNone
    /\ CallsTo(calls, "PGVector.from_documents") # {}
    /\ Len(UpsertedDocs) = 1
    /\ UpsertedDocs[1].page = 1
    /\ UpsertedDocs[1].source = op.filename

C23_WitnessFailure ==
    /\ pc = "raised"
    /\ op.name = "embed_pdf"
    /\ CallsTo(calls, "PGVector.from_documents") # {}
    /\ ret = Raise(INDEX_ERROR)

\* C24: in a generation call, the context is assembled and the completion is
\* requested exactly when retrieval returned at least one chunk, each at most
\* once, the context first, and both after the search has been answered; when
\* retrieval returned no chunk or raised, neither is called.
C24_CompletionIffDocuments ==
    op.name \in GenerationOps =>
        LET assembled == CallsTo(calls, "format_context_for_prompt")
            completions == CallsTo(calls, "chat.completions.create")
            searches == CallsTo(calls, "similarity_search")
            found == op.retrieved.kind = "ok" /\ op.retrieved.value # <<>>
        IN  /\ completions # {} <=> found
            /\ assembled # {} <=> found
            /\ Cardinality(completions) <= 1
            /\ Cardinality(assembled) <= 1
            /\ \A c \in completions :
                  /\ \E s \in searches : s < c /\ calls[s].arg.answer = op.retrieved.value
                  /\ \E a \in assembled : a < c
            /\ \A a \in assembled : \E s \in searches : s < a

\* A generation call whose search, with a source filter, found nothing in an
\* index that holds rows returned without assembling a context or requesting a
\* completion.
C24_Witness ==
    /\ pc = "returned"
    /\ op.name = "generate_summary"
    /\ op.retrieved = Ok(<<>>)
    /\ index # EmptyBag
    /\ CallsTo(calls, "similarity_search") # {}
    /\ CallsTo(calls, "chat.completions.create") = {}
    /\ CallsTo(calls, "format_context_for_prompt") = {}

\* A generation call requested a completion after its search found a chunk.
C24_WitnessCompletion ==
    /\ pc = "completing"
    /\ op.name = "generate_recommendations"
    /\ Len(op.retrieved.value) = 1
    /\ Len(calls) >= 3
    /\ calls[Len(calls)].fn = "chat.completions.create"
    /\ calls[Len(calls) - 1].fn = "format_context_for_prompt"

\* The number of rows of the index whose source is the given one.
RowsOfSource(source) ==
    LET rows == {r \in BagToSet(index) : r.source = source}
    IN  BagCardinality([r \in rows |-> index[r]])

\* C26: a search is filtered exactly when the source filter is a non-empty
\* string (for retrieve: when filter_dict names a source): the request then
\* carries the filter source = that string, every chunk returned has exactly
\* that source, and the chunks are as many as k and the rows of that source
\* allow; with None, "" or an empty mapping the request carries no filter and
\* the chunks are as many as k and all the rows of the index allow.
C26_SourceFilterWhenNonEmpty ==
    op.name \in {"retrieve", "retrieve_with_scores", "retrieve_formatted",
                 "_retrieve_context"} =>
        \A c \in CallsTo(calls, "similarity_search")
                 \cup CallsTo(calls, "similarity_search_with_score") :
            LET request == calls[c].arg.request
                answer == calls[c].arg.answer
                given == IF op.name = "_retrieve_context"
                         THEN op.source_filter.kind = "str" /\ op.source_filter.value # ""
                         ELSE op.filter.kind = "source"
                source == IF op.name = "_retrieve_context"
                          THEN op.source_filter.value
                          ELSE op.filter.source
            IN  IF given
                THEN /\ request.filter = [kind |-> "source", source |-> source]
                     /\ \A i \in 1..Len(answer) : answer[i].source = source
                     /\ worker.out.kind = "ok" =>
                           Len(answer) = Min(op.k, RowsOfSource(source))
                ELSE /\ request.filter = [kind |-> "None", source |-> ""]
                     /\ worker.out.kind = "ok" =>
                           Len(answer) = Min(op.k, BagCardinality(index))

\* _retrieve_context with the source filter "" returned chunks of both files.
C26_Witness ==
    /\ pc = "returned"
    /\ op.name = "_retrieve_context"
    /\ op.source_filter = Str("")
    /\ \E i, j \in 1..Len(ret.value) :
          ret.value[i].source = "jan.pdf" /\ ret.value[j].source = "feb.pdf"

\* _retrieve_context with the source filter "jan.pdf" returned the one chunk of
\* that file from an index that holds chunks of another file too.
C26_WitnessFiltered ==
    /\ pc = "returned"
    /\ op.name = "_retrieve_context"
    /\ op.source_filter = Str("jan.pdf")
    /\ op.k = K_MAX
    /\ Len(ret.value) = 1
    /\ BagCardinality(index) = 3

\* retrieve with an empty mapping as filter_dict returned chunks of both files.
C26_WitnessEmptyMapping ==
    /\ pc = "returned"
    /\ op.name = "retrieve"
    /\ op.filter = EmptyFilter
    /\ \E i, j \in 1..Len(ret.value) :
          ret.value[i].source = "jan.pdf" /\ ret.value[j].source = "feb.pdf"

\* C28: in calls made one after the other, a retriever that holds a vector
\* store holds the embeddings handle it was built with; a call that ran
\* _ensure_initialized with an API key and left the vector store null has kept
\* (or made) the embeddings handle, has searched nothing and has raised the
\* error of the construction of the vector store; and a call that finds the
\* embeddings handle without a vector store keeps that handle, constructs no
\* embeddings, and constructs at most the vector store.
C28_StoreImpliesEmbeddings ==
    [][LET initialised ==
               \/ /\ worker.status = "pending"
                  /\ worker.fn \in {"_retrieve_sync", "_retrieve_with_scores_sync"}
                  /\ worker'.status = "done"
               \/ pc = "idle" /\ op'.name = "get_retriever"
           error == IF op'.name = "get_retriever" THEN ret' ELSE worker'.out
           searches == CallsTo(calls', "similarity_search")
                       \cup CallsTo(calls', "similarity_search_with_score")
                       \cup CallsTo(calls', "as_retriever")
       IN  /\ retriever'.vector_store # None =>
                 /\ retriever'.embeddings # None
                 /\ retriever'.vector_store.embeddings = retriever'.embeddings
           /\ (initialised /\ settings.open_api_key # ""
               /\ retriever'.vector_store = None) =>
                 /\ retriever'.embeddings # None
                 /\ retriever.embeddings # None =>
                       retriever'.embeddings = retriever.embeddings
                 /\ searches = {}
                 /\ error \in {Raise(CONFIG_DB_ERROR), Raise(INDEX_ERROR)}
           /\ (initialised /\ retriever.embeddings # None
               /\ retriever.vector_store = None) =>
                 /\ retriever'.embeddings = retriever.embeddings
                 /\ built'.embeddings = built.embeddings
                 /\ CallsTo(calls', "OpenAIEmbeddings") = {}
                 /\ retriever'.vector_store # None =>
                       /\ built'.vector_store = built.vector_store + 1
                       /\ Cardinality(CallsTo(calls', "PGVector")) = 1]_vars

\* retrieve returned after constructing only the vector store: the embeddings
\* handle was left by an earlier call whose construction of the vector store
\* failed.
C28_Witness ==
    /\ pc = "returned"
    /\ op.name = "retrieve"
    /\ built = [embeddings |-> 1, vector_store |-> 1]
    /\ CallsTo(calls, "OpenAIEmbeddings") = {}
    /\ CallsTo(calls, "PGVector") # {}
    /\ CallsTo(calls, "similarity_search") # {}

\* retrieve raised the error of the construction of the vector store; the
\* retriever holds the embeddings handle and no vector store.
C28_WitnessFailed ==
    /\ pc = "raised"
    /\ op.name = "retrieve"
    /\ ret = Raise(INDEX_ERROR)
    /\ retriever.embeddings # None
    /\ retriever.vector_store = None
    /\ calls = <<>>

\* C30 as stated: for a URL with a non-empty password, _safe_db_url returns
\* the URL with "***" in the place of the password and every other component
\* as it was; a URL without a password (none, or an empty one) is returned
\* unchanged.
C30_PasswordMasked ==
    masking.done =>
        IF masking.parts.password # None /\ masking.parts.password.value # <<>>
        THEN masking.result = BuildUrl([masking.parts EXCEPT !.password = Str(MASK)])
        ELSE masking.result = masking.url

\* C27 as stated: whatever the interleaving of the concurrent first calls on
\* the one retriever, each handle is constructed at most once, a handle the
\* retriever holds is never replaced, and every search runs against a vector
\* store built from the embeddings handle the retriever holds.
C27_HandlesBuiltOnceWhenShared ==
    [][/\ built'.embeddings <= 1
       /\ built'.vector_store <= 1
       /\ retriever.embeddings # None => retriever'.embeddings = retriever.embeddings
       /\ retriever.vector_store # None => retriever'.vector_store = retriever.vector_store
       /\ \A t \in DOMAIN threads' :
             threads'[t].pc = "done" =>
                 threads'[t].store.embeddings = threads'[t].embeddings]_vars

\* C29: every request that holds a retriever holds one that its own handler
\* constructed and that no other request holds; a retriever is used by its
\* owner only; as many retrievers exist as requests have constructed one; and a
\* request whose retrieval succeeded has constructed both handles of its
\* retriever itself.
C29_OwnRetrieverPerRequest ==
    LET reqs == http.requests
        pool == http.retrievers
        holding == {r \in 1..Len(reqs) : reqs[r].retriever # 0}
    IN  /\ \A r \in 1..Len(reqs) :
              reqs[r].pc \in {"constructed", "retrieved"} => r \in holding
        /\ \A r \in holding :
              /\ reqs[r].retriever \in 1..Len(pool)
              /\ pool[reqs[r].retriever].owner = r
              /\ \A q \in holding : q # r => reqs[q].retriever # reqs[r].retriever
        /\ \A i \in 1..Len(pool) : pool[i].users \subseteq {pool[i].owner}
        /\ Len(pool) = Cardinality(holding)
        /\ \A r \in holding :
              reqs[r].pc = "retrieved" =>
                  /\ pool[reqs[r].retriever].built = [embeddings |-> 1, vector_store |-> 1]
                  /\ pool[reqs[r].retriever].users = {r}

\* Two requests, to a search endpoint and to an agent endpoint, have retrieved
\* at the same time, each with the handles of its own retriever.
C29_Witness ==
    /\ Len(http.requests) = 2
    /\ http.requests[1].endpoint = "search_documents"
    /\ http.requests[2].endpoint = "generate_summary"
    /\ http.requests[1].pc = "retrieved"
    /\ http.requests[2].pc = "retrieved"
    /\ Len(http.retrievers) = 2
    /\ http.retrievers[1].built = [embeddings |-> 1, vector_store |-> 1]
    /\ http.retrievers[2].built = [embeddings |-> 1, vector_store |-> 1]

\* The blocks of the completion request of the current call, and the
\* documents whose block is in the prompt uncut.
PromptParts ==
    calls[CHOOSE c \in CallsTo(calls, "chat.completions.create") : TRUE]
        .arg.messages[1].content.context.parts

CompleteBlocks == {i \in 1..Len(PromptParts) : ~PromptParts[i].truncated}

\* C25: a generation call that returns after a completion reports as
\* documents_used the number of all the chunks retrieved and as sources the
\* sources of all of them, whatever part of them the prompt holds; when the
\* budget cut or left out a block, documents_used is larger than the number of
\* complete blocks of the prompt.
C25_CountsAllRetrievedChunks ==
    (pc = "returned" /\ op.name \in GenerationOps /\ op.completion # None) =>
        LET documents == op.retrieved.value
            cut == \/ Len(PromptParts) < Len(documents)
                   \/ \E i \in 1..Len(PromptParts) : PromptParts[i].truncated
        IN  /\ ret.value.documents_used = Len(documents)
            /\ {ret.value.sources[i] : i \in 1..Len(ret.value.sources)}
               = {documents[i].source : i \in 1..Len(documents)}
            /\ cut => ret.value.documents_used > Cardinality(CompleteBlocks)

\* With k = 20, 17 chunks were retrieved; the prompt holds 15 complete blocks
\* and a cut one, all of jan.pdf; the result reports 17 documents and lists
\* feb.pdf, none of whose text is in the prompt.
C25_Witness ==
    /\ pc = "returned"
    /\ op.name = "generate_summary"
    /\ op.completion # None
    /\ op.k = K_MAX
    /\ Len(op.retrieved.value) = 17
    /\ ret.value.documents_used = 17
    /\ Cardinality(CompleteBlocks) = 15
    /\ Len(PromptParts) = 16
    /\ PromptParts[16].truncated
    /\ \E i \in 1..Len(ret.value.sources) : ret.value.sources[i] = "feb.pdf"
    /\ \A i \in 1..Len(PromptParts) :
          op.retrieved.value[PromptParts[i].doc].source = "jan.pdf"

====
